---------------------------- MODULE Spec2Model ----------------------------
(***************************************************************************)
(* Model of the p2k host cache (pkg/hostmgr/p2k/hostcache/hostcache.go)    *)
(* and of scalar.IsOldVersion.  The cache-level operations are translated  *)
(* from hostcache.go.  HostSummary, Matcher and the resource vector are    *)
(* not part of the available sources; they are modelled from the design    *)
(* document (sections 3 and 4) and are marked as such below.               *)
(***************************************************************************)
EXTENDS Integers, Sequences, FiniteSets, TLC

(***************************************************************************)
(* Bounds of the model.                                                    *)
(***************************************************************************)
MaxTime == 2
MaxLeases == 2
MaxHostsCap == 2
MaxSteps == 4
MaxEventSteps == 3
MaxSeedSteps == 2
MaxVersionLen == 2
MaxVersionSteps == 3
MaxCapSteps == 5
MaxLifeSteps == 3
MaxMaintSteps == 3

Hosts == {"h1", "h2"}
Pods == {"p1", "p2"}

(***************************************************************************)
(* Configuration (design document, section 6): lease_ttl and hold_ttl,     *)
(* scaled to the model clock.                                              *)
(***************************************************************************)
LeaseTTL == 1
HoldTTL == 1

(***************************************************************************)
(* Resources: a vector of scalars.  Two components are kept (cpu, mem).    *)
(***************************************************************************)
Zero == [cpu |-> 0, mem |-> 0]
R(c, m) == [cpu |-> c, mem |-> m]

Add(a, b) == [cpu |-> a.cpu + b.cpu, mem |-> a.mem + b.mem]

\* subtract saturates at zero
Subtract(a, b) ==
  [cpu |-> IF a.cpu >= b.cpu THEN a.cpu - b.cpu ELSE 0,
   mem |-> IF a.mem >= b.mem THEN a.mem - b.mem ELSE 0]

Contains(a, b) == a.cpu >= b.cpu /\ a.mem >= b.mem

\* hmscalar.FromPelotonResources: field-wise copy of the wire message
FromPelotonResources(r) == [cpu |-> r.cpu, mem |-> r.mem]

\* capacities carried by host events, resources of pods, filter minimums
CapSet == {R(2, 2), R(1, 2)}
PodResSet == {R(1, 1)}
FilterResSet == {R(1, 1), R(2, 2)}

(***************************************************************************)
(* Go maps are functions with a finite domain.                             *)
(***************************************************************************)
EmptyMap == [x \in {} |-> 0]
MapPut(m, k, v) == [x \in (DOMAIN m) \cup {k} |-> IF x = k THEN v ELSE m[x]]
MapDelete(m, k) == [x \in (DOMAIN m) \ {k} |-> m[x]]

RECURSIVE SumRes(_)
SumRes(m) ==
  IF DOMAIN m = {} THEN Zero
  ELSE LET k == CHOOSE x \in DOMAIN m : TRUE
       IN Add(m[k], SumRes(MapDelete(m, k)))

(***************************************************************************)
(* Resource versions are strings; a string is a sequence of characters.    *)
(***************************************************************************)
Digits == {"0", "1", "2", "3", "4", "5", "6", "7", "8", "9"}
DigitVal(ch) ==
  CASE ch = "0" -> 0 [] ch = "1" -> 1 [] ch = "2" -> 2 [] ch = "3" -> 3
    [] ch = "4" -> 4 [] ch = "5" -> 5 [] ch = "6" -> 6 [] ch = "7" -> 7
    [] ch = "8" -> 8 [] ch = "9" -> 9

\* a uint64 is kept as its decimal digits without leading zeros; <<>> is 0
RECURSIVE TrimZeros(_)
TrimZeros(s) ==
  IF s # <<>> /\ Head(s) = "0" THEN TrimZeros(Tail(s)) ELSE s

\* a < b for two uint64 values
UintLess(a, b) ==
  \/ Len(a) < Len(b)
  \/ /\ Len(a) = Len(b)
     /\ \E i \in 1..Len(a) :
          /\ \A j \in 1..(i - 1) : a[j] = b[j]
          /\ DigitVal(a[i]) < DigitVal(b[i])

\* 1<<64 - 1
MaxUint64 ==
  <<"1", "8", "4", "4", "6", "7", "4", "4", "0", "7", "3", "7", "0", "9", "5",
    "5", "1", "6", "1", "5">>

\* the loop of strconv.ParseUint over the characters left, n being the value
\* of the digits read so far: a character that is no digit ends the scan
\* with 0 (ErrSyntax), a digit that takes the value past 1<<64 - 1 ends it
\* with 1<<64 - 1 (ErrRange), whatever follows
RECURSIVE ParseUintFrom(_, _)
ParseUintFrom(s, n) ==
  IF s = <<>> THEN n
  ELSE IF Head(s) \notin Digits THEN <<>>
  ELSE LET n1 == TrimZeros(Append(n, Head(s))) IN
       IF UintLess(MaxUint64, n1) THEN MaxUint64
       ELSE ParseUintFrom(Tail(s), n1)

\* strconv.ParseUint(s, 10, 64) with the error dropped; the empty string
\* gives 0 (ErrSyntax)
ParseUint(s) == ParseUintFrom(s, <<>>)

IsOldVersion(oldVersion, newVersion) ==
  UintLess(ParseUint(newVersion), ParseUint(oldVersion))

V1 == <<"1">>
V2 == <<"2">>
Versions == {V1, V2}


(***************************************************************************)
(* HostSummary (design document, sections 3 and 4.2).                      *)
(***************************************************************************)
NoLease == 0

StatusForHolds(holds) == IF DOMAIN holds = {} THEN "Ready" ELSE "Held"

\* Kubernetes-style summaries derive available as capacity - allocated
Derive(s) ==
  IF s.kind = "Kubelet"
  THEN [s EXCEPT !.available = Subtract(s.capacity, s.allocated)]
  ELSE s

newKubeletHostSummary(hostname, capacity, version) ==
  [hostname |-> hostname, kind |-> "Kubelet", capacity |-> capacity,
   allocated |-> Zero, available |-> capacity, version |-> version,
   status |-> "Ready", leaseID |-> NoLease, leaseExpiry |-> 0,
   pods |-> EmptyMap, holds |-> EmptyMap]

newMesosHostSummary(hostname, version) ==
  [hostname |-> hostname, kind |-> "Mesos", capacity |-> Zero,
   allocated |-> Zero, available |-> Zero, version |-> version,
   status |-> "Ready", leaseID |-> NoLease, leaseExpiry |-> 0,
   pods |-> EmptyMap, holds |-> EmptyMap]

\* mutant: a lease that never expires
ExpireLeaseNever(s, t) == s

\* lazy expiry: a lease whose deadline has passed is terminated by the next
\* operation that looks at the lease (match, terminate, complete, hold)
ExpireLease(s, t) ==
  IF s.status = "Placing" /\ t > s.leaseExpiry
  THEN [s EXCEPT !.status = StatusForHolds(s.holds),
                 !.leaseID = NoLease, !.leaseExpiry = 0]
  ELSE s

\* mutant: TryMatch that does not look at the status of the host
hsTryMatchAnyStatus(s, filter) ==
  IF ~Contains(s.available, filter.res) THEN "INSUFFICIENT_RESOURCES" ELSE "MATCH"

\* mutant: TryMatch that does not compare the free resources with the filter
hsTryMatchAnyResources(s, filter) ==
  IF s.status \notin {"Ready", "Held"} THEN "MISMATCH_STATUS" ELSE "MATCH"

\* hs.TryMatch: feasibility of the filter on the summary, no mutation
hsTryMatch(s, filter) ==
  IF s.status \notin {"Ready", "Held"} THEN "MISMATCH_STATUS"
  ELSE IF ~Contains(s.available, filter.res) THEN "INSUFFICIENT_RESOURCES"
  ELSE "MATCH"

\* mutant: a lease that leaves the host in the status it had
hsAcquireLeaseStaysReady(s, id, t) ==
  [s EXCEPT !.leaseID = id, !.leaseExpiry = t + LeaseTTL]

\* mutant: every lease gets the same lease id
hsAcquireLeaseSameID(s, id, t) ==
  [s EXCEPT !.status = "Placing", !.leaseID = 1, !.leaseExpiry = t + LeaseTTL]

\* hs.AcquireLease: Ready/Held -> Placing under a fresh lease id
hsAcquireLease(s, id, t) ==
  [s EXCEPT !.status = "Placing", !.leaseID = id,
            !.leaseExpiry = t + LeaseTTL]

hsGetHostLease(s) ==
  [hostname |-> s.hostname, leaseID |-> s.leaseID, offered |-> s.available]

\* mutant: the lease id stays on the summary when the lease is terminated
hsTerminateLeaseKeepsID(s0, id, t) ==
  LET s == ExpireLease(s0, t) IN
  IF s.status # "Placing" \/ s.leaseID # id
  THEN [s |-> s, err |-> "InvalidLease"]
  ELSE [s |-> [s EXCEPT !.status = StatusForHolds(s.holds)], err |-> "nil"]

\* mutant: the host is Ready after a terminated lease, whatever it holds
hsTerminateLeaseToReady(s0, id, t) ==
  LET s == ExpireLease(s0, t) IN
  IF s.status # "Placing" \/ s.leaseID # id
  THEN [s |-> s, err |-> "InvalidLease"]
  ELSE [s |-> [s EXCEPT !.status = "Ready",
                        !.leaseID = NoLease, !.leaseExpiry = 0],
        err |-> "nil"]

hsTerminateLease(s0, id, t) ==
  LET s == ExpireLease(s0, t) IN
  IF s.status # "Placing" \/ s.leaseID # id
  THEN [s |-> s, err |-> "InvalidLease"]
  ELSE [s |-> [s EXCEPT !.status = StatusForHolds(s.holds),
                        !.leaseID = NoLease, !.leaseExpiry = 0],
        err |-> "nil"]

hsCompleteLease(s0, id, podToResMap, t) ==
  LET s == ExpireLease(s0, t) IN
  IF s.status # "Placing" \/ s.leaseID # id
  THEN [s |-> s, err |-> "InvalidLease"]
  ELSE IF ~Contains(Subtract(s.capacity, s.allocated), SumRes(podToResMap))
  THEN [s |-> s, err |-> "InsufficientResources"]
  ELSE
    LET launched == DOMAIN podToResMap
        \* each entry is added to pods, allocated grows by the sum of the
        \* entries
        pods == [p \in (DOMAIN s.pods) \cup launched |->
                   IF p \in launched THEN podToResMap[p] ELSE s.pods[p]]
        holds == [p \in (DOMAIN s.holds) \ launched |-> s.holds[p]]
    IN [s |-> Derive([s EXCEPT !.pods = pods,
                               !.allocated = Add(s.allocated, SumRes(podToResMap)),
                               !.holds = holds,
                               !.status = StatusForHolds(holds),
                               !.leaseID = NoLease, !.leaseExpiry = 0]),
        err |-> "nil"]

hsHoldForPod(s0, p, t) ==
  LET s == ExpireLease(s0, t) IN
  IF s.status = "Placing"
  THEN [s |-> s, err |-> "ConflictingStatus"]
  ELSE [s |-> [s EXCEPT !.holds = MapPut(s.holds, p, t + HoldTTL),
                        !.status = "Held"],
        err |-> "nil"]

hsReleaseHoldForPod(s, p) ==
  LET holds == MapDelete(s.holds, p)
  IN [s EXCEPT !.holds = holds,
               !.status = IF s.status = "Placing" THEN "Placing"
                          ELSE StatusForHolds(holds)]

\* hs.DeleteExpiredHolds: every hold with expiry <= deadline is removed
hsDeleteExpiredHolds(s, deadline) ==
  LET expired == {p \in DOMAIN s.holds : s.holds[p] <= deadline}
      holds == [p \in (DOMAIN s.holds) \ expired |-> s.holds[p]]
      status == IF s.status = "Placing" THEN "Placing" ELSE StatusForHolds(holds)
  IN [s |-> [s EXCEPT !.holds = holds, !.status = status],
      isFreed |-> (s.status = "Held" /\ status = "Ready"),
      expired |-> expired]

\* hs.HandlePodEvent: Launch puts the pod and its resources, Kill/Evict remove
\* it, Update (a status change) leaves pods alone; allocated follows pods
hsHandlePodEvent(s, ev) ==
  LET pods == CASE ev.kind = "Launch" -> MapPut(s.pods, ev.pod, ev.res)
                [] ev.kind \in {"Kill", "Evict"} -> MapDelete(s.pods, ev.pod)
                [] OTHER -> s.pods
  IN Derive([s EXCEPT !.pods = pods, !.allocated = SumRes(pods)])

hsSetCapacity(s, r) == Derive([s EXCEPT !.capacity = r])
hsSetAvailable(s, r) == IF s.kind = "Mesos" THEN [s EXCEPT !.available = r] ELSE s
hsSetVersion(s, v) == [s EXCEPT !.version = v]

(***************************************************************************)
(* hostCache state.                                                        *)
(*   hostIndex     map hostname -> HostSummary                             *)
(*   podHeldIndex  map podID -> hostname; [nil |-> TRUE] is Go's nil map   *)
(*   now           the wall clock                                          *)
(*   leaseSeq      number of lease ids minted so far (ids are fresh)       *)
(*   acq           the AcquireLeases calls in flight (SpecConc)            *)
(*   steps         number of operations and events so far (model bound)    *)
(*   gcc           the GetClusterCapacity call in flight (SpecCap)         *)
(*   lifecycle     c.lifecycle, the running loops and the Start and Stop   *)
(*                 calls (SpecLife)                                        *)
(*   mu            c.mu, the locks of the summaries and the operations     *)
(*                 holding or awaiting them (SpecLocks)                    *)
(*   maint         the host service: maintenance schedule, host map and    *)
(*                 queue, and the last StartMaintenance (SpecMaint)        *)
(*   join          two job updates and their join (SpecJoin)               *)
(* Spec, SpecEvents, SpecConc and SpecVersions follow a started cache:     *)
(* their loop steps are the bodies of the two running loops.               *)
(***************************************************************************)
VARIABLES hostIndex, podHeldIndex, now, leaseSeq, acq, steps, gcc, lifecycle, mu,
          maint, join

vars ==
  <<hostIndex, podHeldIndex, now, leaseSeq, acq, steps, gcc, lifecycle, mu,
    maint, join>>

NilMap == [nil |-> TRUE, m |-> EmptyMap]
MadeMap(m) == [nil |-> FALSE, m |-> m]

\* every order in which a Go range over a map with key set S may visit it
Orders(S) ==
  {q \in [1..Cardinality(S) -> S] : \A i, j \in 1..Cardinality(S) : q[i] = q[j] => i = j}

(***************************************************************************)
(* Host events (hostcache.go, addHost .. updateHostAvailable).             *)
(***************************************************************************)
HostEvents ==
  [type : {"AddHost", "UpdateHostSpec", "DeleteHost"}, hostname : Hosts,
   capacity : CapSet, version : Versions, available : {Zero}]
  \cup
  [type : {"UpdateHostAvailableRes"}, hostname : Hosts,
   capacity : {Zero}, version : {<<>>}, available : CapSet]

\* mutant: addHost without the version check
addHostNoVersionCheck(idx, ev) ==
  MapPut(idx, ev.hostname,
         newKubeletHostSummary(ev.hostname, ev.capacity, ev.version))

addHost(idx, ev) ==
  IF ev.hostname \in DOMAIN idx
     /\ IsOldVersion(idx[ev.hostname].version, ev.version)
  THEN idx
  ELSE MapPut(idx, ev.hostname,
              newKubeletHostSummary(ev.hostname, ev.capacity, ev.version))

\* mutant: updateHostSpec that adds the host when it is not in the index
updateHostSpecCreates(idx, ev) ==
  IF ev.hostname \notin DOMAIN idx
  THEN MapPut(idx, ev.hostname,
              newKubeletHostSummary(ev.hostname, ev.capacity, ev.version))
  ELSE idx

updateHostSpec(idx, ev) ==
  IF ev.hostname \notin DOMAIN idx THEN idx
  ELSE IF IsOldVersion(idx[ev.hostname].version, ev.version) THEN idx
  ELSE MapPut(idx, ev.hostname,
              hsSetVersion(hsSetCapacity(idx[ev.hostname],
                                     FromPelotonResources(ev.capacity)),
                         ev.version))

\* mutant: deleteHost without the version check
deleteHostNoVersionCheck(idx, ev) == MapDelete(idx, ev.hostname)

deleteHost(idx, ev) ==
  IF ev.hostname \in DOMAIN idx
     /\ IsOldVersion(idx[ev.hostname].version, ev.version)
  THEN idx
  ELSE MapDelete(idx, ev.hostname)

updateHostAvailable(idx, ev) ==
  LET hs == IF ev.hostname \in DOMAIN idx THEN idx[ev.hostname]
            ELSE newMesosHostSummary(ev.hostname, ev.version)
  IN MapPut(idx, ev.hostname,
            hsSetVersion(hsSetAvailable(hs, FromPelotonResources(ev.available)),
                       ev.version))

\* waitForHostEvents: the dispatch on the event type
ApplyHostEvent(idx, ev) ==
  CASE ev.type = "AddHost" -> addHost(idx, ev)
    [] ev.type = "UpdateHostSpec" -> updateHostSpec(idx, ev)
    [] ev.type = "DeleteHost" -> deleteHost(idx, ev)
    [] ev.type = "UpdateHostAvailableRes" -> updateHostAvailable(idx, ev)

\* handlePodEvent: dropped when the host is unknown
PodEvents ==
  [kind : {"Launch"}, hostname : Hosts, pod : Pods, res : PodResSet]
  \cup
  [kind : {"Update", "Kill", "Evict"}, hostname : Hosts, pod : Pods,
   res : {Zero}]

handlePodEvent(idx, ev) ==
  IF ev.hostname \notin DOMAIN idx THEN idx
  ELSE MapPut(idx, ev.hostname, hsHandlePodEvent(idx[ev.hostname], ev))

(***************************************************************************)
(* Public operations (hostcache.go).  An error is "nil", an error kind, or *)
(* "panic" when the Go runtime panics.                                     *)
(***************************************************************************)
\* mutant: getSummary that finds a fresh summary for an unknown hostname
getSummaryNoError(idx, hostname) ==
  IF hostname \in DOMAIN idx
  THEN [hs |-> idx[hostname], err |-> "nil"]
  ELSE [hs |-> newMesosHostSummary(hostname, <<>>), err |-> "nil"]

getSummary(idx, hostname) ==
  IF hostname \in DOMAIN idx
  THEN [hs |-> idx[hostname], err |-> "nil"]
  ELSE [hs |-> newMesosHostSummary(hostname, <<>>), err |-> "NotFound"]

\* mutant: TerminateLease that returns without terminating anything
TerminateLeaseNoop(idx, hostname, leaseID, t) ==
  [idx |-> idx, err |-> IF hostname \in DOMAIN idx THEN "nil" ELSE "NotFound"]

\* mutant: TerminateLease that presents the lease id the host has
TerminateLeaseIgnoresID(idx, hostname, leaseID, t) ==
  LET g == getSummary(idx, hostname) IN
  IF g.err # "nil" THEN [idx |-> idx, err |-> g.err]
  ELSE LET r == hsTerminateLease(g.hs, g.hs.leaseID, t)
       IN [idx |-> MapPut(idx, hostname, r.s), err |-> r.err]

TerminateLease(idx, hostname, leaseID, t) ==
  LET g == getSummary(idx, hostname) IN
  IF g.err # "nil" THEN [idx |-> idx, err |-> g.err]
  ELSE LET r == hsTerminateLease(g.hs, leaseID, t)
       IN [idx |-> MapPut(idx, hostname, r.s), err |-> r.err]

\* mutant: CompleteLease that completes the lease without its pods
CompleteLeaseNoPods(idx, hostname, leaseID, podToResMap, t) ==
  LET g == getSummary(idx, hostname) IN
  IF g.err # "nil" THEN [idx |-> idx, err |-> g.err]
  ELSE LET r == hsCompleteLease(g.hs, leaseID, EmptyMap, t)
       IN [idx |-> MapPut(idx, hostname, r.s), err |-> r.err]

\* mutant: CompleteLease that ends the lease when the summary refuses the pods
CompleteLeaseTerminatesOnError(idx, hostname, leaseID, podToResMap, t) ==
  LET g == getSummary(idx, hostname) IN
  IF g.err # "nil" THEN [idx |-> idx, err |-> g.err]
  ELSE LET r == hsCompleteLease(g.hs, leaseID, podToResMap, t)
       IN IF r.err = "nil"
          THEN [idx |-> MapPut(idx, hostname, r.s), err |-> r.err]
          ELSE [idx |-> MapPut(idx, hostname, hsTerminateLease(r.s, leaseID, t).s),
                err |-> r.err]

\* mutant: CompleteLease that puts the holds of the host back
CompleteLeaseKeepsHolds(idx, hostname, leaseID, podToResMap, t) ==
  LET g == getSummary(idx, hostname) IN
  IF g.err # "nil" THEN [idx |-> idx, err |-> g.err]
  ELSE LET r == hsCompleteLease(g.hs, leaseID, podToResMap, t)
       IN [idx |-> MapPut(idx, hostname, [r.s EXCEPT !.holds = g.hs.holds]),
           err |-> r.err]

CompleteLease(idx, hostname, leaseID, podToResMap, t) ==
  LET g == getSummary(idx, hostname) IN
  IF g.err # "nil" THEN [idx |-> idx, err |-> g.err]
  ELSE LET r == hsCompleteLease(g.hs, leaseID, podToResMap, t)
       IN [idx |-> MapPut(idx, hostname, r.s), err |-> r.err]

\* sums over the index as it stands at one instant (the result of a call
\* that runs alone); hs.GetCapacity / hs.GetAllocated read the fields
GetClusterCapacity(idx) ==
  [capacity |-> SumRes([h \in DOMAIN idx |-> idx[h].capacity]),
   allocation |-> SumRes([h \in DOMAIN idx |-> idx[h].allocated])]

GetHostHeldForPod(held, p) ==
  IF p \in DOMAIN held.m THEN held.m[p] ELSE ""

\* addPodHold writes the map: on a nil map the Go runtime panics
addPodHoldPanics(held) == held.nil
addPodHold(held, hostname, p) == MadeMap(MapPut(held.m, p, hostname))

\* removePodHold: delete on a nil map is a no-op
removePodHold(held, p) ==
  IF held.nil THEN held ELSE MadeMap(MapDelete(held.m, p))

\* mutant: a loop that returns the error of the first hold that fails
HoldLoopReturnsFirstError(hs, held, hostname, podIDs, errs, t) ==
  IF podIDs = <<>> THEN [hs |-> hs, held |-> held, err |-> "nil"]
  ELSE LET r == hsHoldForPod(hs, Head(podIDs), t) IN
       [hs |-> r.s, held |-> held,
        err |-> IF r.err # "nil" THEN r.err ELSE "panic"]

\* the loop of HoldForPods over podIDs; errs counts the failed holds
RECURSIVE HoldLoop(_, _, _, _, _, _)
HoldLoop(hs, held, hostname, podIDs, errs, t) ==
  IF podIDs = <<>>
  THEN [hs |-> hs, held |-> held,
        err |-> IF errs > 0 THEN "Internal" ELSE "nil"]
  ELSE LET r == hsHoldForPod(hs, Head(podIDs), t) IN
       IF r.err # "nil"
       THEN HoldLoop(r.s, held, hostname, Tail(podIDs), errs + 1, t)
       ELSE IF addPodHoldPanics(held)
       THEN [hs |-> r.s, held |-> held, err |-> "panic"]
       ELSE HoldLoop(r.s, addPodHold(held, hostname, Head(podIDs)),
                     hostname, Tail(podIDs), errs, t)

HoldForPods(idx, held, hostname, podIDs, t) ==
  LET g == getSummary(idx, hostname) IN
  IF g.err # "nil" THEN [idx |-> idx, held |-> held, err |-> g.err]
  ELSE LET r == HoldLoop(g.hs, held, hostname, podIDs, 0, t)
       IN [idx |-> MapPut(idx, hostname, r.hs), held |-> r.held, err |-> r.err]

RECURSIVE ReleaseLoop(_, _, _)
ReleaseLoop(hs, held, podIDs) ==
  IF podIDs = <<>> THEN [hs |-> hs, held |-> held]
  ELSE ReleaseLoop(hsReleaseHoldForPod(hs, Head(podIDs)),
                   removePodHold(held, Head(podIDs)), Tail(podIDs))

ReleaseHoldForPods(idx, held, hostname, podIDs) ==
  LET g == getSummary(idx, hostname) IN
  IF g.err # "nil" THEN [idx |-> idx, held |-> held, err |-> g.err]
  ELSE LET r == ReleaseLoop(g.hs, held, podIDs)
       IN [idx |-> MapPut(idx, hostname, r.hs), held |-> r.held, err |-> "nil"]

\* removePodHold for every pod id of a set (the inner loop of the sweep)
RECURSIVE RemoveAll(_, _)
RemoveAll(held, ps) ==
  IF ps = {} THEN held
  ELSE LET p == CHOOSE x \in ps : TRUE
       IN RemoveAll(removePodHold(held, p), ps \ {p})

\* mutant: a sweep that returns every host it visits, freed or not
RECURSIVE ResetLoopReturnsAll(_, _, _, _, _)
ResetLoopReturnsAll(idx, held, order, deadline, ret) ==
  IF order = <<>> THEN [idx |-> idx, held |-> held, ret |-> ret]
  ELSE LET hostname == Head(order)
           r == hsDeleteExpiredHolds(idx[hostname], deadline)
       IN ResetLoopReturnsAll(MapPut(idx, hostname, r.s),
                              RemoveAll(held, r.expired), Tail(order),
                              deadline, Append(ret, hostname))

\* ResetExpiredHeldHostSummaries: order is the order of the range over the
\* index; ret lists the freed hostnames in that order
RECURSIVE ResetLoop(_, _, _, _, _)
ResetLoop(idx, held, order, deadline, ret) ==
  IF order = <<>> THEN [idx |-> idx, held |-> held, ret |-> ret]
  ELSE LET hostname == Head(order)
           r == hsDeleteExpiredHolds(idx[hostname], deadline)
       IN ResetLoop(MapPut(idx, hostname, r.s), RemoveAll(held, r.expired),
                    Tail(order), deadline,
                    IF r.isFreed THEN Append(ret, hostname) ELSE ret)

ResetExpiredHeldHostSummaries(idx, held, order, deadline) ==
  ResetLoop(idx, held, order, deadline, <<>>)

(***************************************************************************)
(* Matcher (design document, section 4.3).  A match takes the lease on    *)
(* the summary at once, under the summary's lock: AcquireLeases itself     *)
(* only reads the lease of every matched host afterwards (GetHostLease).   *)
(***************************************************************************)
Filters ==
  [res : FilterResSet, hints : {<<>>, <<"h1">>, <<"h2">>, <<"h2", "h1">>},
   maxHosts : 1..MaxHostsCap]

NewMatcher == [hostNames |-> <<>>, filterCounts |-> EmptyMap]

hostLimitReached(m, filter) == Len(m.hostNames) >= filter.maxHosts

Tally(counts, reason) ==
  MapPut(counts, reason, IF reason \in DOMAIN counts THEN counts[reason] + 1 ELSE 1)

\* mutant: tryMatch that does not look at the host limit
tryMatchNoLimit(st, hostname, filter, t) ==
  LET s == ExpireLease(st.idx[hostname], t)
      result == hsTryMatch(s, filter)
  IN IF result = "MATCH"
     THEN [idx |-> MapPut(st.idx, hostname, hsAcquireLease(s, st.seq + 1, t)),
           seq |-> st.seq + 1,
           m |-> [st.m EXCEPT !.hostNames = Append(@, hostname)]]
     ELSE [idx |-> MapPut(st.idx, hostname, s),
           seq |-> st.seq,
           m |-> [st.m EXCEPT !.filterCounts = Tally(@, result)]]

\* matcher.tryMatch on one host; st = [idx, seq, m]
tryMatch(st, hostname, filter, t) ==
  IF hostLimitReached(st.m, filter)
  THEN [st EXCEPT !.m.filterCounts = Tally(@, "MATCH_MAX_HOST_LIMIT")]
  ELSE LET s == ExpireLease(st.idx[hostname], t)
           result == hsTryMatch(s, filter)
       IN IF result = "MATCH"
          THEN [idx |-> MapPut(st.idx, hostname, hsAcquireLease(s, st.seq + 1, t)),
                seq |-> st.seq + 1,
                m |-> [st.m EXCEPT !.hostNames = Append(@, hostname)]]
          ELSE [idx |-> MapPut(st.idx, hostname, s),
                seq |-> st.seq,
                m |-> [st.m EXCEPT !.filterCounts = Tally(@, result)]]

\* the loop over the host hints: hosts absent from the index are skipped
RECURSIVE HintLoop(_, _, _, _)
HintLoop(st, hints, filter, t) ==
  IF hints = <<>> THEN st
  ELSE IF Head(hints) \notin DOMAIN st.idx
  THEN HintLoop(st, Tail(hints), filter, t)
  ELSE LET st2 == tryMatch(st, st.idx[Head(hints)].hostname, filter, t)
       IN IF hostLimitReached(st2.m, filter) THEN st2
          ELSE HintLoop(st2, Tail(hints), filter, t)

\* the loop over the index, in the order the range over the map takes
RECURSIVE IndexLoop(_, _, _, _)
IndexLoop(st, order, filter, t) ==
  IF order = <<>> THEN st
  ELSE LET st2 == tryMatch(st, Head(order), filter, t)
       IN IF hostLimitReached(st2.m, filter) THEN st2
          ELSE IndexLoop(st2, Tail(order), filter, t)

HostLeases(idx, hostNames) ==
  [i \in 1..Len(hostNames) |-> hsGetHostLease(idx[hostNames[i]])]

\* a call of AcquireLeases between whose steps nothing else runs
AcquireLeases(idx, seq, filter, order, t) ==
  LET st0 == [idx |-> idx, seq |-> seq, m |-> NewMatcher]
      st1 == HintLoop(st0, filter.hints, filter, t)
      st2 == IndexLoop(st1, order, filter, t)
  IN [idx |-> st2.idx, seq |-> st2.seq,
      leases |-> HostLeases(st2.idx, st2.m.hostNames),
      counts |-> st2.m.filterCounts]

(***************************************************************************)
(* The state machine.  New makes hostIndex only and leaves podHeldIndex    *)
(* nil (hostcache.go, New); no other code makes it.                        *)
(***************************************************************************)
NoCalls == [c \in {} |-> 0]

\* no GetClusterCapacity call in flight
NoSum ==
  [pc |-> "idle", todo |-> <<>>, capacity |-> Zero, allocation |-> Zero,
   seen |-> {}]

\* lifecycle.NewLifeCycle(): Idle, the stop channel open, no loop spawned,
\* no Start or Stop in flight
NewLifecycle ==
  [status |-> "Idle", stopCh |-> "open", acks |-> 0,
   hostLoops |-> 0, podLoops |-> 0, calls |-> NoCalls]

\* the host service before any StartMaintenance
NoMaintenance ==
  [schedule |-> {}, hostMap |-> EmptyMap, queue |-> <<>>,
   last |-> [calls |-> <<>>, err |-> "nil", resp |-> "nil"]]

\* no job updates to join
NoJoin == [pc |-> "idle"]

\* every lock free, no operation in flight: the readers of c.mu, its writer,
\* the readers blocked behind the writer, the holder of each summary's lock
NoLocks ==
  [readers |-> {}, writer |-> "none", rq |-> {},
   summary |-> [h \in Hosts |-> "none"], ops |-> NoCalls]

Init ==
  /\ hostIndex = EmptyMap
  /\ podHeldIndex = NilMap
  /\ now = 0
  /\ leaseSeq = 0
  /\ acq = NoCalls
  /\ steps = 0
  /\ gcc = NoSum
  /\ lifecycle = NewLifecycle
  /\ mu = NoLocks
  /\ maint = NoMaintenance
  /\ join = NoJoin

Step == steps < MaxSteps /\ steps' = steps + 1

PodLists == {<<"p1">>, <<"p2">>, <<"p1", "p2">>}
PodToResMaps ==
  {EmptyMap} \cup UNION {[ps -> PodResSet] : ps \in (SUBSET Pods) \ {{}}}

(***************************************************************************)
(* c.mu.  AcquireLeases and GetClusterCapacity hold the read lock of the   *)
(* cache from their first step to their return and make one call on a      *)
(* summary per step; TerminateLease and CompleteLease take the read lock   *)
(* for their one call on a summary, so they, other AcquireLeases calls and *)
(* the clock come between two steps of a call in flight.  The event loops, *)
(* HoldForPods, ReleaseHoldForPods and ResetExpiredHeldHostSummaries take  *)
(* the write lock: they run in one step, and only while no call holds the  *)
(* read lock.                                                              *)
(***************************************************************************)
Callers == {1, 2}

\* a caller whose last call has returned
Returned(c) == c \in DOMAIN acq /\ acq[c].pc = "done"

\* a caller between c.mu.RLock() and c.mu.RUnlock()
InFlight(c) == c \in DOMAIN acq /\ acq[c].pc # "done"

\* some call holds c.mu.RLock()
ReadLocked ==
  \/ \E c \in DOMAIN acq : InFlight(c)
  \/ gcc.pc \in {"capacity", "allocated"}


\* gcc.seen records the sums over the index at every instant since the
\* GetClusterCapacity call in flight began
Observe(g, idx) ==
  IF g.pc \in {"capacity", "allocated"}
  THEN [g EXCEPT !.seen = @ \cup {GetClusterCapacity(idx)}] ELSE g

Tick ==
  /\ Step
  /\ now < MaxTime
  /\ now' = now + 1
  /\ UNCHANGED <<hostIndex, podHeldIndex, leaseSeq, acq, gcc, lifecycle, mu, maint, join>>

waitForHostEvents ==
  /\ Step
  /\ ~ReadLocked
  /\ \E ev \in HostEvents :
    /\ hostIndex' = ApplyHostEvent(hostIndex, ev)
    /\ UNCHANGED <<podHeldIndex, now, leaseSeq, acq, gcc, lifecycle, mu, maint, join>>

waitForPodEvents ==
  /\ Step
  /\ ~ReadLocked
  /\ \E ev \in PodEvents :
    /\ hostIndex' = handlePodEvent(hostIndex, ev)
    /\ UNCHANGED <<podHeldIndex, now, leaseSeq, acq, gcc, lifecycle, mu, maint, join>>

MatcherState(c) == [idx |-> hostIndex, seq |-> leaseSeq, m |-> acq[c].m]

\* where a call stands before its next call on a summary: a loop that has
\* nothing left to visit is over, and the call is at its return once the
\* lease of every matched host is read
Settle(a) ==
  LET a1 == IF a.pc = "hints" /\ a.hints = <<>>
            THEN [a EXCEPT !.pc = "index"] ELSE a
      a2 == IF a1.pc = "index" /\ a1.order = <<>>
            THEN [a1 EXCEPT !.pc = "collect", !.toRead = a1.m.hostNames] ELSE a1
  IN IF a2.pc = "collect" /\ a2.toRead = <<>>
     THEN [a2 EXCEPT !.pc = "return"] ELSE a2

\* the leases the calls in flight may still take
Pending ==
  LET RECURSIVE Sum(_)
      Sum(cs) == IF cs = {} THEN 0
                 ELSE LET c == CHOOSE x \in cs : TRUE
                      IN (acq[c].filter.maxHosts - Len(acq[c].m.hostNames))
                         + Sum(cs \ {c})
  IN Sum({c \in DOMAIN acq : InFlight(c)})

\* the filters of a call that keeps the lease ids within the bound
BoundedFilters(filters) ==
  {f \in filters : leaseSeq + Pending + f.maxHosts <= MaxLeases}

\* c.mu.RLock(); matcher := NewMatcher(hostFilter); the range over the map
\* fixes an iteration order.  The callers are alike: a call takes the first
\* free place among them.
AcqBegin(c, filters) ==
  /\ c \notin DOMAIN acq
  /\ \A d \in Callers : d < c => d \in DOMAIN acq
  /\ \E filter \in filters, order \in Orders(DOMAIN hostIndex) :
       acq' = MapPut(acq, c,
                Settle([filter |-> filter, pc |-> "hints", hints |-> filter.hints,
                        order |-> order, m |-> NewMatcher, toRead |-> <<>>,
                        leases |-> <<>>,
                        overlap |-> \E d \in Callers : InFlight(d)]))
  /\ UNCHANGED <<hostIndex, podHeldIndex, now, leaseSeq, gcc, lifecycle, mu, maint, join>>

\* mutant: the host hints are passed over without a tryMatch
AcqHintStepSkips(c) ==
  /\ InFlight(c) /\ acq[c].pc = "hints"
  /\ acq' = [acq EXCEPT ![c] = Settle([acq[c] EXCEPT !.hints = Tail(acq[c].hints)])]
  /\ UNCHANGED <<hostIndex, podHeldIndex, now, leaseSeq, steps, gcc, lifecycle, mu, maint, join>>

\* one iteration of the loop over the host hints
AcqHintStep(c) ==
  /\ InFlight(c) /\ acq[c].pc = "hints"
  /\ LET a == acq[c] IN
     IF Head(a.hints) \notin DOMAIN hostIndex
     THEN /\ acq' = [acq EXCEPT ![c] = Settle([a EXCEPT !.hints = Tail(a.hints)])]
          /\ UNCHANGED <<hostIndex, leaseSeq>>
     ELSE LET st == tryMatch(MatcherState(c), hostIndex[Head(a.hints)].hostname,
                             a.filter, now)
          IN /\ hostIndex' = st.idx
             /\ leaseSeq' = st.seq
             /\ acq' = [acq EXCEPT ![c] =
                          Settle([a EXCEPT !.m = st.m,
                                           !.hints = IF hostLimitReached(st.m, a.filter)
                                                     THEN <<>> ELSE Tail(a.hints)])]
  /\ gcc' = Observe(gcc, hostIndex')
  /\ UNCHANGED <<podHeldIndex, now, steps, lifecycle, mu, maint, join>>

\* one iteration of the loop over the index
AcqIndexStep(c) ==
  /\ InFlight(c) /\ acq[c].pc = "index"
  /\ LET a == acq[c]
         st == tryMatch(MatcherState(c), Head(a.order), a.filter, now)
     IN /\ hostIndex' = st.idx
        /\ leaseSeq' = st.seq
        /\ acq' = [acq EXCEPT ![c] =
                     Settle([a EXCEPT !.m = st.m,
                                      !.order = IF hostLimitReached(st.m, a.filter)
                                                THEN <<>> ELSE Tail(a.order)])]
  /\ gcc' = Observe(gcc, hostIndex')
  /\ UNCHANGED <<podHeldIndex, now, steps, lifecycle, mu, maint, join>>

\* one iteration of the loop over matcher.hostNames: hs.GetHostLease()
AcqCollect(c) ==
  /\ InFlight(c) /\ acq[c].pc = "collect"
  /\ LET a == acq[c] IN
     acq' = [acq EXCEPT ![c] =
               Settle([a EXCEPT !.leases = Append(a.leases,
                                             hsGetHostLease(hostIndex[Head(a.toRead)])),
                                !.toRead = Tail(a.toRead)])]
  /\ UNCHANGED <<hostIndex, podHeldIndex, now, leaseSeq, steps, gcc, lifecycle, mu, maint, join>>

\* return hostLeases, matcher.filterCounts; the deferred c.mu.RUnlock().
\* The matcher and the leases of the call go with its frame.
AcqReturn(c) ==
  /\ InFlight(c) /\ acq[c].pc = "return"
  /\ acq' = MapDelete(acq, c)
  /\ UNCHANGED <<hostIndex, podHeldIndex, now, leaseSeq, steps, gcc, lifecycle, mu, maint, join>>

\* the same return, to a caller that keeps what the call returned
AcqReturnKept(c) ==
  /\ InFlight(c) /\ acq[c].pc = "return"
  /\ acq' = [acq EXCEPT ![c].pc = "done"]
  /\ UNCHANGED <<hostIndex, podHeldIndex, now, leaseSeq, steps, gcc, lifecycle, mu, maint, join>>

\* a call on a summary by a call in flight
AcqStep(c) ==
  \/ AcqHintStep(c)
  \/ AcqIndexStep(c)
  \/ AcqCollect(c)

CallAcquireLeases ==
  /\ Step
  /\ \E c \in Callers : AcqBegin(c, BoundedFilters(Filters))

CallTerminateLease ==
  /\ Step
  /\ \E hostname \in Hosts, leaseID \in 1..MaxLeases :
    LET r == TerminateLease(hostIndex, hostname, leaseID, now) IN
    /\ hostIndex' = r.idx
    /\ UNCHANGED <<podHeldIndex, now, leaseSeq, acq, gcc, lifecycle, mu, maint, join>>

CallCompleteLease ==
  /\ Step
  /\ \E hostname \in Hosts, leaseID \in 1..MaxLeases, podToResMap \in PodToResMaps :
    LET r == CompleteLease(hostIndex, hostname, leaseID, podToResMap, now) IN
    /\ hostIndex' = r.idx
    /\ UNCHANGED <<podHeldIndex, now, leaseSeq, acq, gcc, lifecycle, mu, maint, join>>

CallHoldForPods ==
  /\ Step
  /\ ~ReadLocked
  /\ \E hostname \in Hosts, podIDs \in PodLists :
    LET r == HoldForPods(hostIndex, podHeldIndex, hostname, podIDs, now) IN
    /\ hostIndex' = r.idx
    /\ podHeldIndex' = r.held
    /\ UNCHANGED <<now, leaseSeq, acq, gcc, lifecycle, mu, maint, join>>

CallReleaseHoldForPods ==
  /\ Step
  /\ ~ReadLocked
  /\ \E hostname \in Hosts, podIDs \in PodLists :
    LET r == ReleaseHoldForPods(hostIndex, podHeldIndex, hostname, podIDs) IN
    /\ hostIndex' = r.idx
    /\ podHeldIndex' = r.held
    /\ UNCHANGED <<now, leaseSeq, acq, gcc, lifecycle, mu, maint, join>>

CallResetExpiredHeldHostSummaries ==
  /\ Step
  /\ ~ReadLocked
  /\ \E deadline \in 0..(MaxTime + HoldTTL), order \in Orders(DOMAIN hostIndex) :
    LET r == ResetExpiredHeldHostSummaries(hostIndex, podHeldIndex, order, deadline) IN
    /\ hostIndex' = r.idx
    /\ podHeldIndex' = r.held
    /\ UNCHANGED <<now, leaseSeq, acq, gcc, lifecycle, mu, maint, join>>

Next ==
  \/ Tick
  \/ waitForHostEvents
  \/ waitForPodEvents
  \/ CallAcquireLeases
  \/ \E c \in Callers : AcqStep(c)
  \/ \E c \in Callers : AcqReturn(c)
  \/ CallTerminateLease
  \/ CallCompleteLease
  \/ CallHoldForPods
  \/ CallReleaseHoldForPods
  \/ CallResetExpiredHeldHostSummaries

Spec == Init /\ [][Next]_vars

\* the event loops with the operations that put leases and holds on hosts
NextEvents ==
  \/ steps < MaxEventSteps /\ waitForHostEvents
  \/ steps < MaxEventSteps /\ waitForPodEvents
  \/ steps < MaxEventSteps /\ CallAcquireLeases
  \/ \E c \in Callers : AcqStep(c)
  \/ \E c \in Callers : AcqReturn(c)
  \/ steps < MaxEventSteps /\ CallHoldForPods

SpecEvents == Init /\ [][NextEvents]_vars

(***************************************************************************)
(* Concurrent AcquireLeases callers on an index that the host events have  *)
(* filled before the first call.                                           *)
(***************************************************************************)
ConcFilters == {f \in Filters : f.hints \in {<<>>, <<"h1">>}}

\* the host events that fill the index before the calls
ConcSeed ==
  /\ steps < MaxSeedSteps
  /\ acq = NoCalls
  /\ waitForHostEvents

\* every caller makes one call
ConcBegin ==
  /\ \E c \in Callers : AcqBegin(c, ConcFilters)
  /\ UNCHANGED steps

NextConc ==
  \/ ConcSeed
  \/ ConcBegin
  \/ \E c \in Callers : AcqStep(c)
  \/ \E c \in Callers : AcqReturnKept(c)

SpecConc == Init /\ [][NextConc]_vars

(***************************************************************************)
(* Host events whose resource version is any short string: the version of  *)
(* a HostInfo is an opaque string, and IsOldVersion is applied to whatever *)
(* the plugin sends.                                                       *)
(***************************************************************************)
VersionChars == {"1", "2", "a"}
VersionStrings ==
  UNION {[1..n -> VersionChars] : n \in 0..MaxVersionLen}

HostEventsAnyVersion ==
  [type : {"AddHost", "UpdateHostSpec", "DeleteHost"}, hostname : Hosts,
   capacity : {R(2, 2)}, version : VersionStrings, available : {Zero}]

waitForHostEventsAnyVersion ==
  /\ steps < MaxVersionSteps
  /\ steps' = steps + 1
  /\ \E ev \in HostEventsAnyVersion :
    /\ hostIndex' = ApplyHostEvent(hostIndex, ev)
    /\ UNCHANGED <<podHeldIndex, now, leaseSeq, acq, gcc, lifecycle, mu, maint, join>>

NextVersions == waitForHostEventsAnyVersion

SpecVersions == Init /\ [][NextVersions]_vars

(***************************************************************************)
(* GetClusterCapacity against concurrent operations.  The call holds the   *)
(* read lock of the cache from GccBegin to GccReturn; a turn of its loop   *)
(* is two calls on the summary, GetCapacity and GetAllocated, each under   *)
(* the lock of the summary.  AcquireLeases, TerminateLease and             *)
(* CompleteLease also take the read lock only, so their calls on a summary *)
(* come between any two steps of the loop; the event loops take the write  *)
(* lock and run only while no call is in flight.                           *)
(***************************************************************************)
CapStep == steps < MaxCapSteps /\ steps' = steps + 1

CapFilters ==
  {f \in Filters : f.hints \in {<<>>, <<"h1">>} /\ f.res = R(1, 1)}

CapHostEvents ==
  {ev \in HostEvents : /\ ev.type \in {"AddHost", "DeleteHost"}
                       /\ ev.capacity = R(2, 2)
                       /\ ev.version = V1}

CapHostEvent ==
  /\ gcc.pc = "idle"
  /\ ~ReadLocked
  /\ CapStep
  /\ \E ev \in CapHostEvents :
    /\ hostIndex' = ApplyHostEvent(hostIndex, ev)
    /\ UNCHANGED <<podHeldIndex, now, leaseSeq, acq, gcc, lifecycle, mu, maint, join>>

CapPodEvent ==
  /\ gcc.pc = "idle"
  /\ ~ReadLocked
  /\ CapStep
  /\ \E ev \in PodEvents :
    /\ hostIndex' = handlePodEvent(hostIndex, ev)
    /\ UNCHANGED <<podHeldIndex, now, leaseSeq, acq, gcc, lifecycle, mu, maint, join>>

CapAcquireLeases ==
  /\ gcc.pc # "done"
  /\ CapStep
  /\ \E c \in Callers : AcqBegin(c, BoundedFilters(CapFilters))

CapTerminateLease ==
  /\ gcc.pc # "done"
  /\ CapStep
  /\ \E hostname \in Hosts, leaseID \in 1..MaxLeases :
    LET r == TerminateLease(hostIndex, hostname, leaseID, now) IN
    /\ hostIndex' = r.idx
    /\ gcc' = Observe(gcc, r.idx)
    /\ UNCHANGED <<podHeldIndex, now, leaseSeq, acq, lifecycle, mu, maint, join>>

CapCompleteLease ==
  /\ gcc.pc # "done"
  /\ CapStep
  /\ \E hostname \in Hosts, leaseID \in 1..MaxLeases, podToResMap \in PodToResMaps :
    LET r == CompleteLease(hostIndex, hostname, leaseID, podToResMap, now) IN
    /\ hostIndex' = r.idx
    /\ gcc' = Observe(gcc, r.idx)
    /\ UNCHANGED <<podHeldIndex, now, leaseSeq, acq, lifecycle, mu, maint, join>>

\* c.mu.RLock(); the range over the map fixes an iteration order
GccBegin ==
  /\ gcc.pc = "idle"
  /\ \E order \in Orders(DOMAIN hostIndex) :
       gcc' = [pc |-> "capacity", todo |-> order, capacity |-> Zero,
               allocation |-> Zero, seen |-> {GetClusterCapacity(hostIndex)}]
  /\ UNCHANGED <<hostIndex, podHeldIndex, now, leaseSeq, acq, steps, lifecycle, mu, maint, join>>

\* the first call of a turn of the loop: capacity.Add(hs.GetCapacity())
GccCapacity ==
  /\ gcc.pc = "capacity"
  /\ gcc.todo # <<>>
  /\ gcc' = [gcc EXCEPT !.pc = "allocated",
                        !.capacity = Add(@, hostIndex[Head(gcc.todo)].capacity)]
  /\ UNCHANGED <<hostIndex, podHeldIndex, now, leaseSeq, acq, steps, lifecycle, mu, maint, join>>

\* the second call of the turn: allocation.Add(hs.GetAllocated())
GccAllocated ==
  /\ gcc.pc = "allocated"
  /\ gcc' = [gcc EXCEPT !.pc = "capacity",
                        !.todo = Tail(@),
                        !.allocation = Add(@, hostIndex[Head(gcc.todo)].allocated)]
  /\ UNCHANGED <<hostIndex, podHeldIndex, now, leaseSeq, acq, steps, lifecycle, mu, maint, join>>

\* return; c.mu.RUnlock()
GccReturn ==
  /\ gcc.pc = "capacity"
  /\ gcc.todo = <<>>
  /\ gcc' = [gcc EXCEPT !.pc = "done"]
  /\ UNCHANGED <<hostIndex, podHeldIndex, now, leaseSeq, acq, steps, lifecycle, mu, maint, join>>

NextCap ==
  \/ CapHostEvent
  \/ CapPodEvent
  \/ CapAcquireLeases
  \/ \E c \in Callers : AcqStep(c)
  \/ \E c \in Callers : AcqReturn(c)
  \/ CapTerminateLease
  \/ CapCompleteLease
  \/ GccBegin
  \/ GccCapacity
  \/ GccAllocated
  \/ GccReturn

SpecCap == Init /\ [][NextCap]_vars

(***************************************************************************)
(* Start and Stop.  The lifecycle manager is not part of the available     *)
(* sources and is modelled from the design document (section 4.6): three   *)
(* states, Start succeeds from Idle only, Stop closes the stop channel of  *)
(* a running lifecycle and Wait returns, with the lifecycle Stopped, once  *)
(* both loops have acknowledged.  lifecycle.calls gives, for a thread, the *)
(* Start or Stop it is in ("spawn", "wait") or how its last call ended     *)
(* ("started", "refused", "nostop").                                       *)
(***************************************************************************)
Threads == {1, 2}

lifecycleStart(l) ==
  IF l.status = "Idle"
  THEN [l |-> [l EXCEPT !.status = "Running"], ok |-> TRUE]
  ELSE [l |-> l, ok |-> FALSE]

lifecycleStop(l) ==
  IF l.status = "Running" /\ l.stopCh = "open"
  THEN [l |-> [l EXCEPT !.stopCh = "closed"], ok |-> TRUE]
  ELSE [l |-> l, ok |-> FALSE]

\* lifecycle.Wait() returns when both loops have acknowledged the stop
lifecycleWaitOver(l) == l.acks = 2

InCall(l, t) == t \in DOMAIN l.calls /\ l.calls[t] \in {"spawn", "wait"}

\* mutant: Start that spawns the loops whatever lifecycle.Start() returns
StartUnguarded(l, t) ==
  [lifecycleStart(l).l EXCEPT !.calls = MapPut(@, t, "spawn")]

\* Start up to its two go statements: if !c.lifecycle.Start() { return }
Start(l, t) ==
  LET r == lifecycleStart(l) IN
  IF ~r.ok THEN [r.l EXCEPT !.calls = MapPut(@, t, "refused")]
  ELSE [r.l EXCEPT !.calls = MapPut(@, t, "spawn")]

\* Stop up to c.lifecycle.Wait(): if !c.lifecycle.Stop() { return }
Stop(l, t) ==
  LET r == lifecycleStop(l) IN
  IF ~r.ok THEN [r.l EXCEPT !.calls = MapPut(@, t, "nostop")]
  ELSE [r.l EXCEPT !.calls = MapPut(@, t, "wait")]

CallStart ==
  \E t \in Threads :
    /\ ~InCall(lifecycle, t)
    /\ lifecycle' = Start(lifecycle, t)
    /\ UNCHANGED <<hostIndex, podHeldIndex, now, leaseSeq, acq, steps, gcc, mu, maint, join>>

\* go c.waitForHostEvents(); go c.waitForPodEvents()
StartSpawn ==
  \E t \in Threads :
    /\ t \in DOMAIN lifecycle.calls
    /\ lifecycle.calls[t] = "spawn"
    /\ lifecycle' = [lifecycle EXCEPT !.hostLoops = @ + 1, !.podLoops = @ + 1,
                                      !.calls = MapPut(@, t, "started")]
    /\ UNCHANGED <<hostIndex, podHeldIndex, now, leaseSeq, acq, steps, gcc, mu, maint, join>>

\* the thread stays in c.lifecycle.Wait() until both loops have acknowledged;
\* no step of the loops acknowledges, so no step ends the wait
CallStop ==
  \E t \in Threads :
    /\ ~InCall(lifecycle, t)
    /\ lifecycle' = Stop(lifecycle, t)
    /\ UNCHANGED <<hostIndex, podHeldIndex, now, leaseSeq, acq, steps, gcc, mu, maint, join>>

\* select: case event := <-c.hostEventCh (taken also when the stop channel
\* is closed: select chooses among the ready cases)
HostLoopEvent ==
  /\ lifecycle.hostLoops > 0
  /\ steps < MaxLifeSteps
  /\ steps' = steps + 1
  /\ \E ev \in HostEvents :
    /\ hostIndex' = ApplyHostEvent(hostIndex, ev)
    /\ UNCHANGED <<podHeldIndex, now, leaseSeq, acq, gcc, lifecycle, mu, maint, join>>

\* select: case <-c.lifecycle.StopCh(): return
HostLoopExit ==
  /\ lifecycle.hostLoops > 0
  /\ lifecycle.stopCh = "closed"
  /\ lifecycle' = [lifecycle EXCEPT !.hostLoops = @ - 1]
  /\ UNCHANGED <<hostIndex, podHeldIndex, now, leaseSeq, acq, steps, gcc, mu, maint, join>>

PodLoopEvent ==
  /\ lifecycle.podLoops > 0
  /\ steps < MaxLifeSteps
  /\ steps' = steps + 1
  /\ \E ev \in PodEvents :
    /\ hostIndex' = handlePodEvent(hostIndex, ev)
    /\ UNCHANGED <<podHeldIndex, now, leaseSeq, acq, gcc, lifecycle, mu, maint, join>>

PodLoopExit ==
  /\ lifecycle.podLoops > 0
  /\ lifecycle.stopCh = "closed"
  /\ lifecycle' = [lifecycle EXCEPT !.podLoops = @ - 1]
  /\ UNCHANGED <<hostIndex, podHeldIndex, now, leaseSeq, acq, steps, gcc, mu, maint, join>>

NextLife ==
  \/ CallStart
  \/ StartSpawn
  \/ CallStop
  \/ HostLoopEvent
  \/ HostLoopExit
  \/ PodLoopEvent
  \/ PodLoopExit

SpecLife == Init /\ [][NextLife]_vars

\* the Go scheduler runs every goroutine that can take a step
SpecLifeFair ==
  /\ Init /\ [][NextLife]_vars
  /\ WF_vars(StartSpawn)
  /\ WF_vars(HostLoopExit)
  /\ WF_vars(PodLoopExit)

(***************************************************************************)
(* Locks.  An operation is the sequence of lock and unlock calls its code  *)
(* makes: c.mu (a sync.RWMutex) first, then the lock of one summary at a   *)
(* time (HostSummary guards its fields with its own lock, design document  *)
(* section 5), then the deferred release of c.mu.  c.mu behaves as Go's    *)
(* RWMutex: Lock excludes other writers at once, makes later RLock calls   *)
(* block, and waits for the readers already in to leave; Unlock admits the *)
(* readers that blocked meanwhile.                                         *)
(***************************************************************************)
LockThreads == {"caller1", "caller2", "hostLoop", "podLoop"}

ReadOps ==
  {"AcquireLeases", "TerminateLease", "CompleteLease", "GetClusterCapacity",
   "GetSummaries", "GetHostHeldForPod"}
WriteOps ==
  {"HoldForPods", "ReleaseHoldForPods", "ResetExpiredHeldHostSummaries",
   "handlePodEvent", "hostEvent"}

OpsOf(t) ==
  IF t = "hostLoop" THEN {"hostEvent"}
  ELSE IF t = "podLoop" THEN {"handlePodEvent"}
  ELSE (ReadOps \cup WriteOps) \ {"hostEvent", "handlePodEvent"}

\* the calls an operation makes on summaries, in order, each under the lock
\* of its summary and never two at a time, on an index of at most two hosts.

\* n calls on the summary of h
Calls(h, n) == [i \in 1..n |-> h]

\* the tries of an AcquireLeases call and the lease reads that follow: the
\* hosts are tried in the order of tries for as long as the matcher is below
\* its limit (a tryMatch at the limit tallies without calling the summary),
\* out[i] telling whether the i-th try matches; then GetHostLease is called
\* on every matched host, in the order of the matches
RECURSIVE AcqCalls(_, _, _, _, _)
AcqCalls(tries, out, maxHosts, calls, matched) ==
  LET i == Len(calls) + 1 IN
  IF i > Len(tries) \/ Len(matched) >= maxHosts THEN calls \o matched
  ELSE AcqCalls(tries, out, maxHosts, Append(calls, tries[i]),
                IF out[i] THEN Append(matched, tries[i]) ELSE matched)

\* AcquireLeases: the hinted hosts that are in the index, in hint order,
\* then the hosts of the index in the order the range gives; a host may
\* match at any try (its lease may end between two tries)
AcquireLeasesVisits ==
  UNION {UNION {UNION {
    LET tries == SelectSeq(f.hints, LAMBDA h : h \in idx) \o order
    IN {AcqCalls(tries, out, f.maxHosts, <<>>, <<>>) :
          out \in [1..Len(tries) -> BOOLEAN]}
    : order \in Orders(idx)} : f \in Filters} : idx \in SUBSET Hosts}

\* GetClusterCapacity: GetCapacity and GetAllocated on every host of the
\* index, in the order the range gives
GetClusterCapacityVisits ==
  UNION {{[i \in 1..(2 * Len(order)) |-> order[(i + 1) \div 2]] :
            order \in Orders(idx)} : idx \in SUBSET Hosts}

\* ResetExpiredHeldHostSummaries: DeleteExpiredHolds on every host of the
\* index, in the order the range gives
ResetVisits == UNION {Orders(idx) : idx \in SUBSET Hosts}

\* TerminateLease, CompleteLease and handlePodEvent make one call, and none
\* when the host is unknown; HoldForPods and ReleaseHoldForPods make one per
\* pod (HoldForPods one only when addPodHold panics on the nil index); a
\* host event makes none (addHost of a new host, updateHostSpec or
\* deleteHost of an unknown one), one (GetVersion), two (updateHostAvailable)
\* or three (updateHostSpec: GetVersion, SetCapacity, SetVersion);
\* GetSummaries and GetHostHeldForPod make none
Visits(op) ==
  CASE op = "AcquireLeases" -> AcquireLeasesVisits
    [] op = "GetClusterCapacity" -> GetClusterCapacityVisits
    [] op = "ResetExpiredHeldHostSummaries" -> ResetVisits
    [] op \in {"TerminateLease", "CompleteLease", "handlePodEvent"} ->
         {Calls(h, n) : h \in Hosts, n \in 0..1}
    [] op \in {"HoldForPods", "ReleaseHoldForPods"} ->
         {Calls(h, n) : h \in Hosts, n \in 0..Cardinality(Pods)}
    [] op = "hostEvent" -> {Calls(h, n) : h \in Hosts, n \in 0..3}
    [] OTHER -> {<<>>}

\* c.mu.RLock() or c.mu.Lock()
CacheLock(op) == IF op \in ReadOps THEN "RLock" ELSE "Lock"

\* what an operation that has still to make one of the call sequences of
\* rest can do next: call the summary of a host, or return
NextCalls(rest) ==
  {h \in Hosts : \E v \in rest : v # <<>> /\ Head(v) = h}
    \cup (IF <<>> \in rest THEN {"return"} ELSE {})

\* the thread holds the lock of the cache and goes for its next call, c
Proceed(o, c) ==
  [o EXCEPT !.st = "in", !.next = c,
            !.rest = IF c = "return" THEN {}
                     ELSE {Tail(v) : v \in {w \in o.rest : w # <<>> /\ Head(w) = c}}]

\* mutant: the lock of the cache is released while a summary call is running
AtDeferredUnlockEarly(o) ==
  o.st = "held" \/ (o.st = "in" /\ o.next = "return")

\* the deferred unlock of c.mu runs when the operation returns, after its
\* last summary call
AtDeferredUnlock(o) == o.st = "in" /\ o.next = "return"

InOp(t) == t \in DOMAIN mu.ops

LockFrame == UNCHANGED <<hostIndex, podHeldIndex, now, leaseSeq, acq, steps, gcc, lifecycle, maint, join>>

\* the thread calls an operation; what the operation finds in the index, and
\* so the calls it makes, is settled under the lock
OpBegin(t) ==
  /\ ~InOp(t)
  /\ \E op \in OpsOf(t) :
       mu' = [mu EXCEPT !.ops = MapPut(@, t,
                [lock |-> CacheLock(op), st |-> "call", next |-> "",
                 rest |-> Visits(op)])]
  /\ LockFrame

\* RLock: in at once unless a writer has announced itself
DoRLock(t) ==
  /\ InOp(t)
  /\ mu.ops[t].st = "call"
  /\ mu.ops[t].lock = "RLock"
  /\ IF mu.writer = "none"
     THEN \E c \in NextCalls(mu.ops[t].rest) :
            mu' = [mu EXCEPT !.readers = @ \cup {t},
                             !.ops[t] = Proceed(@, c)]
     ELSE mu' = [mu EXCEPT !.rq = @ \cup {t}, !.ops[t].st = "blocked"]
  /\ LockFrame

DoRUnlock(t) ==
  /\ InOp(t)
  /\ mu.ops[t].lock = "RLock"
  /\ AtDeferredUnlock(mu.ops[t])
  /\ mu' = [mu EXCEPT !.readers = @ \ {t}, !.ops[t].st = "out"]
  /\ LockFrame

\* Lock, first half: exclude the other writers and announce
DoLock(t) ==
  /\ InOp(t)
  /\ mu.ops[t].st = "call"
  /\ mu.ops[t].lock = "Lock"
  /\ mu.writer = "none"
  /\ mu' = [mu EXCEPT !.writer = t, !.ops[t].st = "drain"]
  /\ LockFrame

\* Lock, second half: the readers that were in have left
DoLockEnter(t) ==
  /\ InOp(t)
  /\ mu.ops[t].st = "drain"
  /\ mu.readers = {}
  /\ \E c \in NextCalls(mu.ops[t].rest) :
       mu' = [mu EXCEPT !.ops[t] = Proceed(@, c)]
  /\ LockFrame

\* Unlock: the readers blocked behind the writer are in
DoUnlock(t) ==
  /\ InOp(t)
  /\ mu.ops[t].lock = "Lock"
  /\ mu.writer = t
  /\ AtDeferredUnlock(mu.ops[t])
  /\ \E c \in [mu.rq -> Hosts \cup {"return"}] :
       /\ \A u \in mu.rq : c[u] \in NextCalls(mu.ops[u].rest)
       /\ mu' = [mu EXCEPT
                   !.writer = "none", !.readers = mu.rq, !.rq = {},
                   !.ops = [u \in DOMAIN mu.ops |->
                              IF u = t THEN [mu.ops[u] EXCEPT !.st = "out"]
                              ELSE IF u \in mu.rq THEN Proceed(mu.ops[u], c[u])
                              ELSE mu.ops[u]]]
  /\ LockFrame

\* a call on a summary begins: the lock of the summary
DoSLock(t) ==
  /\ InOp(t)
  /\ mu.ops[t].st = "in"
  /\ mu.ops[t].next \in Hosts
  /\ mu.summary[mu.ops[t].next] = "none"
  /\ mu' = [mu EXCEPT !.summary[mu.ops[t].next] = t, !.ops[t].st = "held"]
  /\ LockFrame

\* the call on the summary returns
DoSUnlock(t) ==
  /\ InOp(t)
  /\ mu.ops[t].st = "held"
  /\ \E c \in NextCalls(mu.ops[t].rest) :
       mu' = [mu EXCEPT !.summary[mu.ops[t].next] = "none",
                        !.ops[t] = Proceed(@, c)]
  /\ LockFrame

OpReturn(t) ==
  /\ InOp(t)
  /\ mu.ops[t].st = "out"
  /\ mu' = [mu EXCEPT !.ops = MapDelete(@, t)]
  /\ LockFrame

\* the steps of a thread inside an operation
LockStep(t) ==
  \/ DoRLock(t)
  \/ DoRUnlock(t)
  \/ DoLock(t)
  \/ DoLockEnter(t)
  \/ DoUnlock(t)
  \/ DoSLock(t)
  \/ DoSUnlock(t)
  \/ OpReturn(t)

NextLocks == \E t \in LockThreads : OpBegin(t) \/ LockStep(t)

\* sync.Mutex and sync.RWMutex starve no waiter, and the scheduler runs
\* every goroutine that can take a step
SpecLocks ==
  /\ Init /\ [][NextLocks]_vars
  /\ \A t \in LockThreads : SF_vars(LockStep(t))

(***************************************************************************)
(* The host service's StartMaintenance and CompleteMaintenance.  The       *)
(* handler is not part of the available sources; its steps are taken from  *)
(* the calls its test suite expects of the operator client, the            *)
(* maintenance host map and the maintenance queue (strict mocks: a call    *)
(* that is not expected fails the test), and from the responses the suite  *)
(* asserts.  The suite has three machines: host1 is up, host2 is down and  *)
(* host3 is draining; host1 and host3 are the registered agents.           *)
(***************************************************************************)
MaintHosts == {"host1", "host2", "host3", "invalid"}

\* the host service with the suite's down machine in the maintenance host
\* map and in the schedule
DownMaintenance ==
  [schedule |-> {"host2"}, hostMap |-> MapPut(EmptyMap, "host2", "DOWN"),
   queue |-> <<>>, last |-> [calls |-> <<>>, err |-> "nil", resp |-> "nil"]]

\* the registered agents: the suite's two agents, the same with a pid of
\* host1 that holds no IP, and no agent at all
AgentMaps ==
  {[host1 |-> "pid", host3 |-> "pid"], [host1 |-> "invalidPID", host3 |-> "pid"],
   EmptyMap}

\* the step the mocks make fail
MaintFailures == {"none", "GetMaintenanceSchedule", "UpdateMaintenanceSchedule", "Enqueue"}

Refused(m, calls) ==
  [m EXCEPT !.last = [calls |-> calls, err |-> "error", resp |-> "nil"]]

\* mutant: StartMaintenance that goes on after the schedule was not posted
StartMaintenanceGoesOn(m, agents, hostname, fail) ==
  IF hostname \notin DOMAIN agents \/ fail = "GetMaintenanceSchedule"
  THEN Refused(m, <<>>)
  ELSE [schedule |-> m.schedule,
        hostMap |-> MapPut(m.hostMap, hostname, "DRAINING"),
        queue |-> Append(m.queue, hostname),
        last |-> [calls |-> <<"GetMaintenanceSchedule", "UpdateMaintenanceSchedule",
                              "AddHostInfo", "Enqueue">>,
                  err |-> "nil", resp |-> hostname]]

StartMaintenance(m, agents, hostname, fail) ==
  IF hostname \notin DOMAIN agents THEN Refused(m, <<>>)
  ELSE IF agents[hostname] # "pid" THEN Refused(m, <<>>)
  ELSE IF fail = "GetMaintenanceSchedule"
  THEN Refused(m, <<"GetMaintenanceSchedule">>)
  ELSE IF fail = "UpdateMaintenanceSchedule"
  THEN Refused(m, <<"GetMaintenanceSchedule", "UpdateMaintenanceSchedule">>)
  ELSE
    LET posted == [m EXCEPT !.schedule = @ \cup {hostname},
                            !.hostMap = MapPut(@, hostname, "DRAINING")]
        calls == <<"GetMaintenanceSchedule", "UpdateMaintenanceSchedule",
                   "AddHostInfo", "Enqueue">>
    IN IF fail = "Enqueue" THEN Refused(posted, calls)
       ELSE [posted EXCEPT !.queue = Append(@, hostname),
                           !.last = [calls |-> calls, err |-> "nil",
                                     resp |-> hostname]]

\* the hosts GetDownHostInfos returns
GetDownHostInfos(m) == {h \in DOMAIN m.hostMap : m.hostMap[h] = "DOWN"}

\* the step of CompleteMaintenance the mocks make fail
CompleteFailures == {"none", "StopMaintenance"}

CompleteMaintenance(m, hostname, fail) ==
  IF hostname \notin GetDownHostInfos(m)
  THEN Refused(m, <<"GetDownHostInfos">>)
  ELSE IF fail = "StopMaintenance"
  THEN Refused(m, <<"GetDownHostInfos", "StopMaintenance">>)
  ELSE [schedule |-> m.schedule \ {hostname},
        hostMap |-> MapDelete(m.hostMap, hostname),
        queue |-> m.queue,
        last |-> [calls |-> <<"GetDownHostInfos", "StopMaintenance",
                              "RemoveHostInfo">>,
                  err |-> "nil", resp |-> hostname]]

CallStartMaintenance ==
  /\ steps < MaxMaintSteps
  /\ steps' = steps + 1
  /\ \E agents \in AgentMaps, hostname \in MaintHosts, fail \in MaintFailures :
       maint' = StartMaintenance(maint, agents, hostname, fail)
  /\ UNCHANGED <<hostIndex, podHeldIndex, now, leaseSeq, acq, gcc, lifecycle, mu, join>>

CallCompleteMaintenance ==
  /\ steps < MaxMaintSteps
  /\ steps' = steps + 1
  /\ \E hostname \in MaintHosts, fail \in CompleteFailures :
       maint' = CompleteMaintenance(maint, hostname, fail)
  /\ UNCHANGED <<hostIndex, podHeldIndex, now, leaseSeq, acq, gcc, lifecycle, mu, join>>

NextMaint ==
  \/ CallStartMaintenance
  \/ CallCompleteMaintenance

InitMaint ==
  /\ hostIndex = EmptyMap
  /\ podHeldIndex = NilMap
  /\ now = 0
  /\ leaseSeq = 0
  /\ acq = NoCalls
  /\ steps = 0
  /\ gcc = NoSum
  /\ lifecycle = NewLifecycle
  /\ mu = NoLocks
  /\ maint \in {NoMaintenance, DownMaintenance}
  /\ join = NoJoin

SpecMaint == InitMaint /\ [][NextMaint]_vars

(***************************************************************************)
(* aurorabridge/ptoa: JoinRollbackJobUpdateDetails.                        *)
(* A JobUpdateDetails is modelled by the fields the function reads:        *)
(*   key, metadata, instructions   copied as they are                      *)
(*   user, created, modified       optional fields (pointers): Nil or      *)
(*                                 Ptr(v); read through the nil-safe       *)
(*                                 getters, written back through ptr.X     *)
(*   status                        the status of the summary's state       *)
(*   events                        the update events, each with a status   *)
(***************************************************************************)
MaxEvents == 2
MaxCreated == 2

Nil == <<>>
Ptr(v) == <<v>>

\* the generated getters: the zero value for a nil pointer
GetUser(d) == IF d.user = Nil THEN "" ELSE d.user[1]
GetCreatedTimestampMs(d) == IF d.created = Nil THEN 0 ELSE d.created[1]
GetLastModifiedTimestampMs(d) == IF d.modified = Nil THEN 0 ELSE d.modified[1]

rollbackAndTerminalStatuses ==
  {"RollingBack", "RollBackPaused", "RollBackAwaitingPulse", "RolledBack",
   "Aborted", "Error", "Failed"}

\* the second loop: the events of the first update that are kept
RECURSIVE FirstUpdateEvents(_)
FirstUpdateEvents(events) ==
  IF events = <<>> THEN <<>>
  ELSE IF Head(events).status \in rollbackAndTerminalStatuses
  THEN FirstUpdateEvents(Tail(events))
  ELSE <<Head(events)>> \o FirstUpdateEvents(Tail(events))

\* the result built from d1 preceding d2
Stitch(d1, d2) ==
  [key          |-> d1.key,
   user         |-> Ptr(GetUser(d1)),
   status       |-> d2.status,
   created      |-> Ptr(GetCreatedTimestampMs(d1)),
   modified     |-> Ptr(GetLastModifiedTimestampMs(d2)),
   metadata     |-> d1.metadata,
   instructions |-> d1.instructions,
   events       |-> d2.events \o FirstUpdateEvents(d1.events)]

\* mutant: the join without the swap
JoinRollbackJobUpdateDetailsNoSwap(d1, d2) == Stitch(d1, d2)

JoinRollbackJobUpdateDetails(d1, d2) ==
  IF GetCreatedTimestampMs(d1) > GetCreatedTimestampMs(d2)
  THEN Stitch(d2, d1)
  ELSE Stitch(d1, d2)

\* the event lists and the details given as the n-th argument; the fields the
\* function copies without reading them carry the number of the argument
EventStatuses == {"RollingForward", "RolledBack", "Failed"}
EventLists ==
  UNION {[1..n -> [status : EventStatuses]] : n \in 0..MaxEvents}
JobUpdateDetails(n) ==
  [key          : {<<"key", n>>},
   user         : {Nil, Ptr(<<"user", n>>)},
   status       : {"RollingForward", "RolledBack"},
   created      : {Nil} \cup {Ptr(t) : t \in 0..MaxCreated},
   modified     : {Nil, Ptr(MaxCreated + n)},
   metadata     : {<<"metadata", n>>},
   instructions : {<<"instructions", n>>},
   events       : EventLists]

InitJoin ==
  /\ hostIndex = EmptyMap
  /\ podHeldIndex = NilMap
  /\ now = 0
  /\ leaseSeq = 0
  /\ acq = NoCalls
  /\ steps = 0
  /\ gcc = NoSum
  /\ lifecycle = NewLifecycle
  /\ mu = NoLocks
  /\ maint = NoMaintenance
  /\ join \in [pc : {"call"}, d1 : JobUpdateDetails(1), d2 : JobUpdateDetails(2)]

CallJoinRollbackJobUpdateDetails ==
  /\ join.pc = "call"
  /\ join' = [pc |-> "done", d1 |-> join.d1, d2 |-> join.d2,
              out |-> JoinRollbackJobUpdateDetails(join.d1, join.d2)]
  /\ UNCHANGED <<hostIndex, podHeldIndex, now, leaseSeq, acq, steps, gcc,
                 lifecycle, mu, maint>>

NextJoin == CallJoinRollbackJobUpdateDetails

SpecJoin == InitJoin /\ [][NextJoin]_vars

(***************************************************************************)
(* Properties.                                                             *)
(***************************************************************************)
IsNumeric(s) == Len(s) > 0 /\ \A i \in 1..Len(s) : s[i] \in Digits

\* the value of a string of decimal digits
RECURSIVE DecValue(_)
DecValue(s) ==
  IF Len(s) = 0 THEN 0
  ELSE 10 * DecValue(SubSeq(s, 1, Len(s) - 1)) + DigitVal(s[Len(s)])

\* version a is older than version b, as unsigned integers
NumLess(a, b) == IsNumeric(a) /\ IsNumeric(b) /\ DecValue(a) < DecValue(b)

KubeEvents == {ev \in HostEvents : ev.type # "UpdateHostAvailableRes"}
AvailableEvents == {ev \in HostEvents : ev.type = "UpdateHostAvailableRes"}

Range(q) == {q[i] : i \in 1..Len(q)}

\* the host is Placing under a lease that has not expired
ActiveLease(s, t) == s.status = "Placing" /\ t <= s.leaseExpiry

\* a step of an AcquireLeases call
CallStep == acq' # acq

\* a step in which the call of c tries a host (matcher.tryMatch)
Tried(c) == c \in DOMAIN acq /\ c \in DOMAIN acq' /\ acq'[c].m # acq[c].m

\* the host that the next tryMatch of the call of c tries
TriedHost(c) ==
  IF acq[c].pc = "hints" THEN Head(acq[c].hints) ELSE Head(acq[c].order)

\* a step in which the call of c takes a lease
Leased(c) ==
  Tried(c) /\ Len(acq'[c].m.hostNames) = Len(acq[c].m.hostNames) + 1

\* the lease that a call takes is on a host without an active lease, under
\* the next lease id; no step of a call touches a host under an active lease
C1_LeaseStep ==
  /\ \A c \in Callers :
       Leased(c) =>
         LET h == TriedHost(c) IN
         /\ h \in DOMAIN hostIndex
         /\ ~ActiveLease(hostIndex[h], now)
         /\ ActiveLease(hostIndex'[h], now)
         /\ hostIndex'[h].leaseID = leaseSeq + 1
         /\ leaseSeq' = leaseSeq + 1
         /\ acq'[c].m.hostNames = Append(acq[c].m.hostNames, h)
  /\ CallStep =>
       \A h \in DOMAIN hostIndex :
         ActiveLease(hostIndex[h], now) =>
           h \in DOMAIN hostIndex' /\ hostIndex'[h] = hostIndex[h]

\* C1: every host has at most one active lease: a host that is Placing under
\* a lease that has not expired is not handed out by any step of an
\* AcquireLeases call, whatever runs between the steps of the call, and keeps
\* its lease; a lease is taken only on a host without an active lease, under
\* a fresh lease id.
C1_OneLeasePerHost == [][C1_LeaseStep]_vars

\* C1 witness: h1 is under the active lease 1; a later call that was hinted
\* h1 has tallied it MISMATCH_STATUS, leased h2 instead and is at its return
C1_Witness ==
  \E c \in DOMAIN acq :
    /\ acq[c].pc = "return"
    /\ acq[c].filter.hints = <<"h1">>
    /\ acq[c].m.hostNames = <<"h2">>
    /\ "MISMATCH_STATUS" \in DOMAIN acq[c].m.filterCounts
    /\ ActiveLease(hostIndex["h1"], now) /\ hostIndex["h1"].leaseID = 1
    /\ ActiveLease(hostIndex["h2"], now) /\ hostIndex["h2"].leaseID = 2
    /\ acq[c].leases = <<hsGetHostLease(hostIndex["h2"])>>

\* C3 (as claimed): every entry podHeldIndex[p] = h names a host of the index
\* whose holds contain p.
C3_IndexEntriesHeld ==
  \A p \in DOMAIN podHeldIndex.m :
    /\ podHeldIndex.m[p] \in DOMAIN hostIndex
    /\ p \in DOMAIN hostIndex[podHeldIndex.m[p]].holds

\* C4 (as claimed): every pod held on a host h has podHeldIndex[p] = h.
C4_HoldsIndexed ==
  \A h \in DOMAIN hostIndex :
    \A p \in DOMAIN hostIndex[h].holds :
      p \in DOMAIN podHeldIndex.m /\ podHeldIndex.m[p] = h

\* C5 (as claimed): on a cache built by New, HoldForPods(h, [p]) on a host
\* that is Ready or Held returns no error, p is held on h, h is Held and
\* GetHostHeldForPod(p) is h.
C5_HoldAfterNew ==
  \A h \in DOMAIN hostIndex, p \in Pods :
    (podHeldIndex.nil /\ hostIndex[h].status \in {"Ready", "Held"}) =>
      LET r == HoldForPods(hostIndex, podHeldIndex, h, <<p>>, now) IN
      /\ r.err = "nil"
      /\ p \in DOMAIN r.idx[h].holds
      /\ r.idx[h].status = "Held"
      /\ GetHostHeldForPod(r.held, p) = h

\* C6: the sweep removes exactly the holds with expiry <= deadline, drops
\* the index entry of each expired pod and of no other pod, returns exactly
\* the hosts that left Held, and a second sweep with the same deadline
\* changes nothing and returns nothing.
C6_ResetExpired ==
  \A deadline \in 0..(MaxTime + HoldTTL), order \in Orders(DOMAIN hostIndex) :
    LET r == ResetExpiredHeldHostSummaries(hostIndex, podHeldIndex, order, deadline)
        expired(h) == {p \in DOMAIN hostIndex[h].holds : hostIndex[h].holds[p] <= deadline}
        allExpired == UNION {expired(h) : h \in DOMAIN hostIndex}
        freed == {h \in DOMAIN hostIndex :
                    hostIndex[h].status = "Held" /\ r.idx[h].status # "Held"}
    IN
    /\ DOMAIN r.idx = DOMAIN hostIndex
    /\ \A h \in DOMAIN hostIndex :
         /\ DOMAIN r.idx[h].holds = (DOMAIN hostIndex[h].holds) \ expired(h)
         /\ \A p \in DOMAIN r.idx[h].holds : r.idx[h].holds[p] = hostIndex[h].holds[p]
         /\ h \notin freed => r.idx[h].status = hostIndex[h].status
    /\ \A p \in allExpired : p \notin DOMAIN r.held.m
    /\ \A p \in (DOMAIN podHeldIndex.m) \ allExpired :
         p \in DOMAIN r.held.m /\ r.held.m[p] = podHeldIndex.m[p]
    /\ Range(r.ret) = freed
    /\ Len(r.ret) = Cardinality(freed)
    /\ \A order2 \in Orders(DOMAIN r.idx) :
         LET r2 == ResetExpiredHeldHostSummaries(r.idx, r.held, order2, deadline)
         IN r2.idx = r.idx /\ r2.held = r.held /\ r2.ret = <<>>

\* C6 witness: a Held host has one hold that has expired by the clock and
\* one that has not; the sweep at the clock frees no host but drops the
\* expired pod
C6_Witness ==
  \E h \in DOMAIN hostIndex, p \in Pods, q \in Pods :
    /\ hostIndex[h].status = "Held"
    /\ p \in DOMAIN hostIndex[h].holds /\ hostIndex[h].holds[p] <= now
    /\ q \in DOMAIN hostIndex[h].holds /\ hostIndex[h].holds[q] > now
    /\ \E order \in Orders(DOMAIN hostIndex) :
         LET r == ResetExpiredHeldHostSummaries(hostIndex, podHeldIndex, order, now)
         IN /\ p \notin DOMAIN r.idx[h].holds /\ q \in DOMAIN r.idx[h].holds
            /\ GetHostHeldForPod(r.held, p) = "" /\ r.ret = <<>>

\* C7: an AddHost, UpdateHostSpec or DeleteHost event with a version older
\* than the version of the existing summary leaves the host index as it is.
C7_OldEventRejected ==
  \A ev \in KubeEvents :
    (ev.hostname \in DOMAIN hostIndex
       /\ NumLess(ev.version, hostIndex[ev.hostname].version))
      => ApplyHostEvent(hostIndex, ev) = hostIndex

\* C7 witness: an older event of each type names a host that runs a pod and
\* has another capacity than the event carries
C7_Witness ==
  \E h \in DOMAIN hostIndex :
    /\ DOMAIN hostIndex[h].pods # {}
    /\ \A ty \in {"AddHost", "UpdateHostSpec", "DeleteHost"} :
         \E ev \in KubeEvents :
           /\ ev.type = ty /\ ev.hostname = h
           /\ NumLess(ev.version, hostIndex[h].version)
           /\ ev.capacity # hostIndex[h].capacity
           /\ ApplyHostEvent(hostIndex, ev) = hostIndex

\* C8 (as claimed): an UpdateHostAvailableRes event with an older version
\* leaves available and version of the summary unchanged.
C8_OldAvailableEventRejected ==
  \A ev \in AvailableEvents :
    (ev.hostname \in DOMAIN hostIndex
       /\ IsOldVersion(hostIndex[ev.hostname].version, ev.version))
      => LET s == ApplyHostEvent(hostIndex, ev)[ev.hostname] IN
         /\ s.available = hostIndex[ev.hostname].available
         /\ s.version = hostIndex[ev.hostname].version

\* pairs of event versions <<v1, v2>> with v1 older than v2; V0 is older
\* than the version of every summary that an event has made
V0 == <<"0">>
OlderPairs ==
  {pr \in (Versions \cup {V0}) \X Versions : NumLess(pr[1], pr[2])}

KubeTypes == {"AddHost", "UpdateHostSpec", "DeleteHost"}
KubeEvent(ty, h, c, v) ==
  [type |-> ty, hostname |-> h, capacity |-> c, version |-> v, available |-> Zero]

BothOrdersAgree(idx, e1, e2) ==
  ApplyHostEvent(ApplyHostEvent(idx, e1), e2)
    = ApplyHostEvent(ApplyHostEvent(idx, e2), e1)

\* C9 (as claimed): two events on one hostname with versions v1 < v2 leave
\* the same host index in either order.
C9_AnyOrderSameState ==
  \A h \in Hosts, pr \in OlderPairs, t1 \in KubeTypes, t2 \in KubeTypes,
     c1 \in CapSet, c2 \in CapSet :
    BothOrdersAgree(hostIndex, KubeEvent(t1, h, c1, pr[1]),
                    KubeEvent(t2, h, c2, pr[2]))

\* an event at version v on h is rejected as older than the summary of h
RejectedAsOld(idx, h, v) ==
  h \in DOMAIN idx /\ IsOldVersion(idx[h].version, v)

\* the cases in which the order of the two events does not matter: the v2
\* event is an AddHost; the v1 event is an UpdateHostSpec; both are
\* DeleteHost; the v2 event is rejected as old, and the v1 event with it; the
\* v2 event is an UpdateHostSpec and the v1 event is rejected as old or is a
\* DeleteHost of an absent host
OrderFree(idx, h, t1, t2, v1, v2) ==
  \/ t2 = "AddHost"
  \/ t1 = "UpdateHostSpec"
  \/ t1 = "DeleteHost" /\ t2 = "DeleteHost"
  \/ RejectedAsOld(idx, h, v2)
  \/ /\ t2 = "UpdateHostSpec"
     /\ \/ RejectedAsOld(idx, h, v1)
        \/ t1 = "DeleteHost" /\ h \notin DOMAIN idx

\* the state that the v2 event describes, reached from idx: the index as it
\* was when the event is rejected as old or updates an absent host, the host
\* gone after a DeleteHost, a summary with the capacity and the version of
\* the event otherwise
InV2State(idx, a, h, t2, c2, v2) ==
  IF RejectedAsOld(idx, h, v2) THEN a = idx
  ELSE IF t2 = "DeleteHost" THEN h \notin DOMAIN a
  ELSE IF t2 = "UpdateHostSpec" /\ h \notin DOMAIN idx THEN a = idx
  ELSE h \in DOMAIN a /\ a[h].capacity = c2 /\ a[h].version = v2

\* C9 (amended): in the order-free cases either order of the two events
\* leaves the same host index, and it is the state of the v2 event.
C9_OrderFreeCases ==
  \A h \in Hosts, pr \in OlderPairs, t1 \in KubeTypes, t2 \in KubeTypes :
    OrderFree(hostIndex, h, t1, t2, pr[1], pr[2]) =>
      \A c1 \in CapSet, c2 \in CapSet :
        LET e1 == KubeEvent(t1, h, c1, pr[1])
            e2 == KubeEvent(t2, h, c2, pr[2])
            a == ApplyHostEvent(ApplyHostEvent(hostIndex, e1), e2)
        IN /\ BothOrdersAgree(hostIndex, e1, e2)
           /\ InV2State(hostIndex, a, h, t2, c2, pr[2])

\* C9 witness: a host at version 2 that runs a pod.  Versions 0 and 1 are
\* both rejected; an AddHost at version 2 over each type of event at version
\* 1 ends in the fresh summary of the AddHost in either order; a DeleteHost
\* at version 2 over an UpdateHostSpec at version 1 deletes the host in
\* either order; an UpdateHostSpec at version 2 over an AddHost at version 1
\* keeps the pod in either order
C9_Witness ==
  \E h \in DOMAIN hostIndex, c1 \in CapSet, c2 \in CapSet :
    /\ c1 # c2
    /\ DOMAIN hostIndex[h].pods # {}
    /\ hostIndex[h].version = V2
    /\ \A t1 \in KubeTypes, t2 \in KubeTypes :
         /\ BothOrdersAgree(hostIndex, KubeEvent(t1, h, c1, V0),
                            KubeEvent(t2, h, c2, V1))
         /\ ApplyHostEvent(ApplyHostEvent(hostIndex, KubeEvent(t2, h, c2, V1)),
                           KubeEvent(t1, h, c1, V0)) = hostIndex
    /\ \A t1 \in KubeTypes :
         LET e1 == KubeEvent(t1, h, c1, V1)
             e2 == KubeEvent("AddHost", h, c2, V2)
             b == ApplyHostEvent(ApplyHostEvent(hostIndex, e2), e1)
         IN /\ b[h].capacity = c2 /\ b[h].version = V2 /\ b[h].pods = EmptyMap
            /\ BothOrdersAgree(hostIndex, e1, e2)
    /\ LET e1 == KubeEvent("UpdateHostSpec", h, c1, V1)
           e2 == KubeEvent("DeleteHost", h, c2, V2)
       IN /\ h \notin DOMAIN ApplyHostEvent(ApplyHostEvent(hostIndex, e2), e1)
          /\ BothOrdersAgree(hostIndex, e1, e2)
    /\ LET e1 == KubeEvent("AddHost", h, c1, V1)
           e2 == KubeEvent("UpdateHostSpec", h, c2, V2)
           b == ApplyHostEvent(ApplyHostEvent(hostIndex, e2), e1)
       IN /\ b[h].capacity = c2 /\ b[h].pods = hostIndex[h].pods
          /\ BothOrdersAgree(hostIndex, e1, e2)

\* C10 (as claimed): a second delivery of an AddHost or UpdateHostSpec event
\* with the version and capacity the summary already has changes nothing.
C10_RedeliveryIdempotent ==
  \A ev \in KubeEvents :
    (ev.type \in {"AddHost", "UpdateHostSpec"}
       /\ ev.hostname \in DOMAIN hostIndex
       /\ hostIndex[ev.hostname].kind = "Kubelet"
       /\ ev.version = hostIndex[ev.hostname].version
       /\ ev.capacity = hostIndex[ev.hostname].capacity)
      => ApplyHostEvent(hostIndex, ev) = hostIndex

\* both calls have returned; the index holds h1 alone, both filters ask for
\* one host without hints, and h1 has the resources either filter asks for
C2_Case ==
  /\ \A c \in Callers : Returned(c)
  /\ DOMAIN hostIndex = {"h1"}
  /\ \A c \in Callers :
       /\ acq[c].filter.maxHosts = 1
       /\ acq[c].filter.hints = <<>>
       /\ Contains(hostIndex["h1"].available, acq[c].filter.res)

\* C2: of two AcquireLeases calls with max-hosts 1 on the single host h1,
\* under every interleaving exactly one returns a lease on h1, and the other
\* returns no lease and filter counts with MISMATCH_STATUS once.
C2_ExactlyOneWins ==
  C2_Case =>
    \E w \in Callers, l \in Callers :
      /\ w # l
      /\ Len(acq[w].leases) = 1
      /\ acq[w].leases[1].hostname = "h1"
      /\ acq[w].leases[1].leaseID = hostIndex["h1"].leaseID
      /\ hostIndex["h1"].status = "Placing"
      /\ acq[l].leases = <<>>
      /\ acq[l].m.filterCounts = MapPut(EmptyMap, "MISMATCH_STATUS", 1)

\* C2 witness: the calls overlapped, and the call that began second holds
\* the lease on h1
C2_Witness ==
  /\ C2_Case
  /\ \E w \in Callers :
       /\ acq[w].overlap
       /\ Len(acq[w].leases) = 1
       /\ acq[w].leases[1].hostname = "h1"

\* the code of a character in a Go string (ASCII)
CharCode(ch) ==
  CASE ch = "0" -> 48 [] ch = "1" -> 49 [] ch = "2" -> 50 [] ch = "3" -> 51
    [] ch = "4" -> 52 [] ch = "5" -> 53 [] ch = "6" -> 54 [] ch = "7" -> 55
    [] ch = "8" -> 56 [] ch = "9" -> 57 [] ch = "a" -> 97

\* a < b in the comparison of Go strings (byte-wise, a proper prefix first)
RECURSIVE StrLess(_, _)
StrLess(a, b) ==
  IF b = <<>> THEN FALSE
  ELSE IF a = <<>> THEN TRUE
  ELSE IF CharCode(Head(a)) # CharCode(Head(b))
  THEN CharCode(Head(a)) < CharCode(Head(b))
  ELSE StrLess(Tail(a), Tail(b))

\* IsOldVersion as the claim describes it
ClaimedIsOldVersion(oldVersion, newVersion) ==
  IF IsNumeric(oldVersion) /\ IsNumeric(newVersion)
  THEN DecValue(newVersion) < DecValue(oldVersion)
  ELSE StrLess(newVersion, oldVersion)

\* C11 (as claimed): IsOldVersion(old, new) is new < old as unsigned
\* integers when both versions parse, and new < old as strings otherwise;
\* here old is the version of a summary and new any version string.
C11_IsOldVersionAsClaimed ==
  \A h \in DOMAIN hostIndex, newVersion \in VersionStrings :
    IsOldVersion(hostIndex[h].version, newVersion)
      = ClaimedIsOldVersion(hostIndex[h].version, newVersion)

DeleteEvents == {ev \in KubeEvents : ev.type = "DeleteHost"}

\* a DeleteHost event that deleteHost accepts for a host of the index
AcceptedDelete(idx, ev) ==
  /\ ev.type = "DeleteHost"
  /\ ev.hostname \in DOMAIN idx
  /\ ~IsOldVersion(idx[ev.hostname].version, ev.version)

\* C12: after an accepted DeleteHost(h) the summary of h is gone, and
\* TerminateLease, CompleteLease, HoldForPods and ReleaseHoldForPods naming
\* h return NotFound and change neither the host index nor the hold index.
C12_DeletedHostNotFound ==
  \A ev \in DeleteEvents :
    AcceptedDelete(hostIndex, ev) =>
      LET h == ev.hostname
          idx == ApplyHostEvent(hostIndex, ev)
      IN /\ h \notin DOMAIN idx
         /\ \A leaseID \in 1..MaxLeases :
              /\ TerminateLease(idx, h, leaseID, now)
                   = [idx |-> idx, err |-> "NotFound"]
              /\ \A podToResMap \in PodToResMaps :
                   CompleteLease(idx, h, leaseID, podToResMap, now)
                     = [idx |-> idx, err |-> "NotFound"]
         /\ \A podIDs \in PodLists :
              /\ HoldForPods(idx, podHeldIndex, h, podIDs, now)
                   = [idx |-> idx, held |-> podHeldIndex, err |-> "NotFound"]
              /\ ReleaseHoldForPods(idx, podHeldIndex, h, podIDs)
                   = [idx |-> idx, held |-> podHeldIndex, err |-> "NotFound"]

\* C12 witness: the deleted host is Placing under an active lease and holds
\* a pod; the lease id of the deleted host is then refused with NotFound, and
\* so is the release of the hold
C12_Witness ==
  \E ev \in DeleteEvents :
    /\ AcceptedDelete(hostIndex, ev)
    /\ ActiveLease(hostIndex[ev.hostname], now)
    /\ \E p \in DOMAIN hostIndex[ev.hostname].holds :
         ReleaseHoldForPods(ApplyHostEvent(hostIndex, ev), podHeldIndex,
                            ev.hostname, <<p>>).err = "NotFound"
    /\ TerminateLease(ApplyHostEvent(hostIndex, ev), ev.hostname,
                      hostIndex[ev.hostname].leaseID, now).err = "NotFound"

\* C13 (as claimed, for the hosts whose capacity comes from host events):
\* the allocated resources of a host are component-wise at most its capacity.
C13_AllocatedWithinCapacity ==
  \A h \in DOMAIN hostIndex :
    hostIndex[h].kind = "Kubelet" =>
      Contains(hostIndex[h].capacity, hostIndex[h].allocated)

\* C14 (as claimed): the allocated vector of every host is the component-wise sum of the
\* resources of the pods in its pods mapping.
C14_AllocatedIsSumOfPods ==
  \A h \in DOMAIN hostIndex :
    hostIndex[h].allocated = SumRes(hostIndex[h].pods)

\* C15: a host is Placing if and only if it has a lease id.
C15_PlacingIffLease ==
  \A h \in DOMAIN hostIndex :
    (hostIndex[h].status = "Placing") <=> (hostIndex[h].leaseID # NoLease)

\* C15 witness: one host is Placing under a lease while another host, whose
\* lease was terminated, has no lease id and can be terminated no more
C15_Witness ==
  \E h \in DOMAIN hostIndex, g \in DOMAIN hostIndex :
    /\ h # g
    /\ hostIndex[h].status = "Placing" /\ hostIndex[h].leaseID = 2
    /\ hostIndex[g].status # "Placing" /\ hostIndex[g].leaseID = NoLease
    /\ TerminateLease(hostIndex, g, 1, now).err = "InvalidLease"
    /\ TerminateLease(hostIndex, h, 2, now).idx[h].leaseID = NoLease

\* C16: a host that is not Placing is Held if and only if its holds mapping
\* is not empty; a host with holds is Held after its lease is terminated.
C16_HeldIffHolds ==
  \A h \in DOMAIN hostIndex :
    LET s == hostIndex[h] IN
    /\ s.status # "Placing" =>
         ((s.status = "Held") <=> (DOMAIN s.holds # {}))
    /\ (s.status = "Placing" /\ DOMAIN s.holds # {}) =>
         /\ TerminateLease(hostIndex, h, s.leaseID, now).idx[h].status = "Held"
         /\ ExpireLease(s, s.leaseExpiry + 1).status = "Held"

\* C16 witness: a host with a hold is Placing under an active lease, and
\* terminating the lease leaves it Held
C16_Witness ==
  \E h \in DOMAIN hostIndex :
    /\ ActiveLease(hostIndex[h], now)
    /\ DOMAIN hostIndex[h].holds # {}
    /\ LET r == TerminateLease(hostIndex, h, hostIndex[h].leaseID, now)
       IN r.err = "nil" /\ r.idx[h].status = "Held"

\* C17 (as claimed): no pod id is at once in the holds and in the pods of a
\* host.
C17_HoldsPodsDisjoint ==
  \A h \in DOMAIN hostIndex :
    (DOMAIN hostIndex[h].holds) \cap (DOMAIN hostIndex[h].pods) = {}

\* the lease taken by a step is undone by TerminateLease with its id
C18_RoundTrip ==
  \A c \in Callers :
    Leased(c) =>
      LET h == TriedHost(c)
          id == hostIndex'[h].leaseID
      IN \A t2 \in now..(now + LeaseTTL) :
           LET t == TerminateLease(hostIndex', h, id, t2) IN
           /\ t.err = "nil"
           /\ t.idx[h].allocated = hostIndex[h].allocated
           /\ t.idx[h].pods = hostIndex[h].pods
           /\ t.idx[h].capacity = hostIndex[h].capacity
           /\ t.idx[h].holds = hostIndex[h].holds
           /\ t.idx[h].status # "Placing"
           /\ hostIndex[h].status # "Placing" => t.idx[h] = hostIndex[h]
           /\ hsTryMatch(t.idx[h], acq[c].filter) = "MATCH"
           /\ \A g \in (DOMAIN hostIndex') \ {h} : t.idx[g] = hostIndex'[g]

\* the lease id that a call returns for a host is the id of the lease the
\* host is under when the call reads it
C18_ReturnedID ==
  \A c \in Callers :
    (c \in DOMAIN acq /\ c \in DOMAIN acq'
       /\ Len(acq'[c].leases) = Len(acq[c].leases) + 1) =>
      LET l == acq'[c].leases[Len(acq'[c].leases)] IN
      /\ l.hostname = Head(acq[c].toRead)
      /\ l.leaseID = hostIndex[l.hostname].leaseID

\* C18: a lease acquired by AcquireLeases and terminated with its id, while
\* the lease is alive, leaves the host with the allocated resources, pods,
\* capacity and holds it had before the acquire; the host is no longer
\* Placing and matches the filter again, and no other host is touched.
C18_AcquireTerminateRestores == [][C18_RoundTrip /\ C18_ReturnedID]_vars

\* C18 witness: a Held host that runs a pod was leased by the call that is
\* at its return; terminating the returned lease one tick later gives the
\* host back Held, with its pods and holds
C18_Witness ==
  \E c \in DOMAIN acq :
    /\ acq[c].pc = "return"
    /\ Len(acq[c].leases) = 1
    /\ LET l == acq[c].leases[1]
           h == l.hostname
       IN /\ ActiveLease(hostIndex[h], now)
          /\ DOMAIN hostIndex[h].holds # {}
          /\ DOMAIN hostIndex[h].pods # {}
          /\ TerminateLease(hostIndex, h, l.leaseID, now + 1)
               = [idx |-> MapPut(hostIndex, h,
                            [hostIndex[h] EXCEPT !.status = "Held",
                                                 !.leaseID = NoLease,
                                                 !.leaseExpiry = 0]),
                  err |-> "nil"]

\* the lease of the host, if it has one, has not expired
NoExpiredLease(s, t) == s.status # "Placing" \/ ActiveLease(s, t)

\* C19: TerminateLease and CompleteLease with an id that is not the lease id
\* of the host, or on a host that is not Placing, fail InvalidLease and leave
\* the index unchanged; with the lease id of a Placing host TerminateLease
\* succeeds, CompleteLease succeeds or fails for lack of resources, and a
\* second TerminateLease with that id fails and changes nothing.
C19_LeaseIdChecked ==
  \A h \in DOMAIN hostIndex, id \in 0..MaxLeases :
    LET s == hostIndex[h] IN
    NoExpiredLease(s, now) =>
      /\ (s.status # "Placing" \/ id # s.leaseID) =>
           /\ TerminateLease(hostIndex, h, id, now)
                = [idx |-> hostIndex, err |-> "InvalidLease"]
           /\ \A podToResMap \in PodToResMaps :
                CompleteLease(hostIndex, h, id, podToResMap, now)
                  = [idx |-> hostIndex, err |-> "InvalidLease"]
      /\ (s.status = "Placing" /\ id = s.leaseID) =>
           /\ LET t == TerminateLease(hostIndex, h, id, now) IN
              /\ t.err = "nil"
              /\ t.idx[h].status # "Placing"
              /\ TerminateLease(t.idx, h, id, now)
                   = [idx |-> t.idx, err |-> "InvalidLease"]
           /\ \A podToResMap \in PodToResMaps :
                LET c == CompleteLease(hostIndex, h, id, podToResMap, now) IN
                /\ c.err \in {"nil", "InsufficientResources"}
                /\ c.err = "nil" =>
                     /\ c.idx[h].status # "Placing"
                     /\ TerminateLease(c.idx, h, id, now).err = "InvalidLease"
                /\ c.err # "nil" => c.idx = hostIndex

\* C19 witness: one host is Placing under lease 2 and another is not Placing;
\* lease id 1, terminated before, is refused on either, lease 2 is accepted
\* once
C19_Witness ==
  \E h \in DOMAIN hostIndex, g \in DOMAIN hostIndex :
    /\ ActiveLease(hostIndex[h], now) /\ hostIndex[h].leaseID = 2
    /\ hostIndex[g].status # "Placing"
    /\ TerminateLease(hostIndex, h, 1, now).err = "InvalidLease"
    /\ CompleteLease(hostIndex, g, 1, EmptyMap, now).err = "InvalidLease"
    /\ TerminateLease(hostIndex, h, 2, now).err = "nil"
    /\ TerminateLease(TerminateLease(hostIndex, h, 2, now).idx, h, 2, now).err
         = "InvalidLease"

\* the effect of a successful CompleteLease on everything but allocated
CompleteLeaseFrame(idx, r, h, podToResMap) ==
  /\ DOMAIN r.idx = DOMAIN idx
  /\ DOMAIN r.idx[h].pods = (DOMAIN idx[h].pods) \cup (DOMAIN podToResMap)
  /\ \A p \in DOMAIN podToResMap : r.idx[h].pods[p] = podToResMap[p]
  /\ \A p \in (DOMAIN idx[h].pods) \ (DOMAIN podToResMap) :
       r.idx[h].pods[p] = idx[h].pods[p]
  /\ r.idx[h].capacity = idx[h].capacity
  /\ \A g \in (DOMAIN idx) \ {h} : r.idx[g] = idx[g]

\* C20: a successful CompleteLease(h, id, pods) increases the
\* allocated resources of h by the sum of the resources in pods, adds those
\* pods to h.pods and changes neither the capacity of h nor any other host.
C20_CompleteAddsSum ==
  \A h \in DOMAIN hostIndex, id \in 1..MaxLeases, podToResMap \in PodToResMaps :
    LET r == CompleteLease(hostIndex, h, id, podToResMap, now) IN
    r.err = "nil" =>
      /\ r.idx[h].allocated = Add(hostIndex[h].allocated, SumRes(podToResMap))
      /\ CompleteLeaseFrame(hostIndex, r, h, podToResMap)

\* C20 witness: a host that runs one pod is under an active lease next to
\* another host; completing the lease with the other pod doubles allocated
C20_Witness ==
  \E h \in DOMAIN hostIndex, g \in DOMAIN hostIndex, p \in Pods, q \in Pods :
    /\ h # g /\ p # q
    /\ ActiveLease(hostIndex[h], now)
    /\ DOMAIN hostIndex[h].pods = {p}
    /\ LET r == CompleteLease(hostIndex, h, hostIndex[h].leaseID,
                              MapPut(EmptyMap, q, R(1, 1)), now)
       IN /\ r.err = "nil"
          /\ r.idx[h].allocated = R(2, 2)
          /\ hostIndex[h].allocated = R(1, 1)
          /\ r.idx[g] = hostIndex[g]

\* C21: CompleteLease with the lease id of a host under an active lease and
\* pods whose resources sum to more than capacity minus allocated fails
\* InsufficientResources and leaves the index as it is.
C21_InsufficientResourcesNoChange ==
  \A h \in DOMAIN hostIndex, podToResMap \in PodToResMaps :
    LET s == hostIndex[h] IN
    (ActiveLease(s, now)
       /\ ~Contains(Subtract(s.capacity, s.allocated), SumRes(podToResMap)))
      => CompleteLease(hostIndex, h, s.leaseID, podToResMap, now)
           = [idx |-> hostIndex, err |-> "InsufficientResources"]

\* C21 witness: a host with a hold runs one pod under an active lease and
\* has room for one more pod, and two pods are refused
C21_Witness ==
  \E h \in DOMAIN hostIndex :
    LET s == hostIndex[h]
        two == [p \in Pods |-> R(1, 1)]
    IN /\ ActiveLease(s, now)
       /\ DOMAIN s.holds # {}
       /\ s.allocated = R(1, 1)
       /\ Contains(Subtract(s.capacity, s.allocated), R(1, 1))
       /\ CompleteLease(hostIndex, h, s.leaseID, two, now).err
            = "InsufficientResources"

\* C22: a successful CompleteLease removes the holds of the pods it launches
\* and no other hold, and ends the lease: the host has no lease id and is
\* Ready when no hold remains and Held when one does.
C22_CompleteClearsHolds ==
  \A h \in DOMAIN hostIndex, id \in 1..MaxLeases, podToResMap \in PodToResMaps :
    LET r == CompleteLease(hostIndex, h, id, podToResMap, now) IN
    r.err = "nil" =>
      LET s == r.idx[h]
          rest == (DOMAIN hostIndex[h].holds) \ (DOMAIN podToResMap)
      IN /\ DOMAIN s.holds = rest
         /\ \A p \in rest : s.holds[p] = hostIndex[h].holds[p]
         /\ s.leaseID = NoLease
         /\ s.status = IF rest = {} THEN "Ready" ELSE "Held"

\* C22 witness: a host that holds two pods is under an active lease;
\* launching one of them leaves it Held, launching both leaves it Ready
C22_Witness ==
  \E h \in DOMAIN hostIndex :
    LET s == hostIndex[h] IN
    /\ ActiveLease(s, now)
    /\ DOMAIN s.holds = {"p1", "p2"}
    /\ CompleteLease(hostIndex, h, s.leaseID,
                     MapPut(EmptyMap, "p1", R(1, 1)), now).idx[h].status = "Held"
    /\ CompleteLease(hostIndex, h, s.leaseID,
                     [p \in Pods |-> R(1, 1)], now).idx[h].status = "Ready"

\* the hosts matched by a call are no more than the cap of its filter, and
\* the leases it returns are those of the hosts it matched
C23_Bounded ==
  \A c \in DOMAIN acq :
    LET a == acq[c] IN
    /\ Len(a.m.hostNames) <= a.filter.maxHosts
    /\ Len(a.leases) <= Len(a.m.hostNames)
    /\ \A i \in 1..Len(a.leases) : a.leases[i].hostname = a.m.hostNames[i]
    /\ a.pc \in {"return", "done"} => Len(a.leases) = Len(a.m.hostNames)

\* a host that a step of a call puts into Placing, or under another lease,
\* is the host matched by that step; every other host is as it was, up to
\* the expiry of an old lease
C23_PlacingStep ==
  CallStep =>
    \A h \in DOMAIN hostIndex :
      /\ h \in DOMAIN hostIndex'
      /\ \/ \E c \in Callers : Leased(c) /\ TriedHost(c) = h
         \/ hostIndex'[h] \in {hostIndex[h], ExpireLease(hostIndex[h], now)}

\* C23: AcquireLeases returns at most max-hosts leases, also when the cap is
\* reached in the pass over the hints, and it puts a host into Placing only
\* by a match that it records and returns a lease for.
C23_AtMostMaxHosts == [](C23_Bounded) /\ [][C23_PlacingStep]_vars

\* C23 witness: two hosts fit the filter and both are hinted; with max-hosts
\* 1 the cap is reached in the pass over the hints, the call is at its
\* return with the one lease and the other host is Ready
C23_Witness ==
  \E c \in DOMAIN acq :
    /\ acq[c].pc = "return"
    /\ acq[c].filter = [res |-> R(1, 1), hints |-> <<"h2", "h1">>, maxHosts |-> 1]
    /\ DOMAIN hostIndex = {"h1", "h2"}
    /\ Len(acq[c].leases) = 1
    /\ acq[c].leases[1].hostname = "h2"
    /\ hostIndex["h2"].status = "Placing"
    /\ hostIndex["h1"].status = "Ready"
    /\ Contains(hostIndex["h1"].available, R(1, 1))
    /\ "MATCH_MAX_HOST_LIMIT" \in DOMAIN acq[c].m.filterCounts

\* the sum of the values of a filter_counts map
RECURSIVE SumCounts(_)
SumCounts(counts) ==
  IF DOMAIN counts = {} THEN 0
  ELSE LET k == CHOOSE x \in DOMAIN counts : TRUE
       IN counts[k] + SumCounts(MapDelete(counts, k))

\* C24 (as claimed): when AcquireLeases ends without reaching the cap, every
\* host of the index is tallied exactly once, with or without host hints:
\* at the return of the call the values of filter_counts and the matched
\* hosts add up to the number of hosts of the index.
C24_EveryHostTalliedOnce ==
  \A c \in DOMAIN acq :
    LET a == acq[c] IN
    (a.pc = "return" /\ ~hostLimitReached(a.m, a.filter)) =>
      SumCounts(a.m.filterCounts) + Len(a.m.hostNames)
        = Cardinality(DOMAIN hostIndex)

\* the hosts that are Ready or Held at time t (a lease past its expiry has
\* ended) and whose free resources do not contain the filter's resources
NonFitting(idx, filter, t) ==
  {h \in DOMAIN idx :
     LET s == ExpireLease(idx[h], t) IN
     s.status \in {"Ready", "Held"} /\ ~Contains(s.available, filter.res)}

CountOf(counts, reason) == IF reason \in DOMAIN counts THEN counts[reason] ELSE 0

\* a host tried below the cap is leased exactly when it is Ready or Held (a
\* lease past its expiry has ended) and its free resources contain the
\* resources of the filter; the lease offers those resources; a Ready or Held
\* host that cannot fit is tallied INSUFFICIENT_RESOURCES and left as it is
C25_FitStep ==
  \A c \in Callers :
    (Tried(c) /\ ~hostLimitReached(acq[c].m, acq[c].filter)) =>
      LET h == TriedHost(c)
          s == ExpireLease(hostIndex[h], now)
          free == s.status \in {"Ready", "Held"}
          fits == Contains(s.available, acq[c].filter.res)
      IN /\ Leased(c) <=> (free /\ fits)
         /\ Leased(c) => hsGetHostLease(hostIndex'[h]).offered = s.available
         /\ (free /\ ~fits) =>
              /\ hostIndex'[h] = s
              /\ CountOf(acq'[c].m.filterCounts, "INSUFFICIENT_RESOURCES")
                   = CountOf(acq[c].m.filterCounts, "INSUFFICIENT_RESOURCES") + 1

\* a call that has ended its passes below the cap has tried every host
C25_AllTried ==
  \A c \in DOMAIN acq :
    LET a == acq[c] IN
    (a.pc \in {"collect", "return", "done"} /\ ~hostLimitReached(a.m, a.filter)) =>
      SumCounts(a.m.filterCounts) + Len(a.m.hostNames)
        >= Cardinality(DOMAIN hostIndex)

\* C25: every lease taken by AcquireLeases is on a host that was Ready or
\* Held when it was acquired and whose free resources contained the filter's
\* resources, and the lease offers those resources; a Ready or Held host that
\* cannot fit the filter is never leased and is tallied as
\* INSUFFICIENT_RESOURCES, and a call that ends below the cap has tried every
\* host.
C25_LeasedHostsFit == [](C25_AllTried) /\ [][C25_FitStep]_vars

\* h1 fits the filter and h2 does not: the call has leased h1 only, tallied
\* h2 and is at its return
C25_Witness ==
  \E c \in DOMAIN acq :
    /\ acq[c].pc = "return"
    /\ acq[c].filter.maxHosts = 2
    /\ DOMAIN hostIndex = {"h1", "h2"}
    /\ NonFitting(hostIndex, acq[c].filter, now) = {"h2"}
    /\ Len(acq[c].leases) = 1
    /\ acq[c].leases[1].hostname = "h1"
    /\ hostIndex["h1"].status = "Placing"
    /\ hostIndex["h2"].status # "Placing"
    /\ CountOf(acq[c].m.filterCounts, "INSUFFICIENT_RESOURCES") >= 1

\* C26 (as claimed): the pair returned by GetClusterCapacity equals the sums
\* over the hosts of the index as it stood at one instant between the call
\* and the return, under every interleaving with CompleteLease,
\* TerminateLease, AcquireLeases and host or pod events.
C26_ConsistentSnapshot ==
  gcc.pc = "done" =>
    [capacity |-> gcc.capacity, allocation |-> gcc.allocation] \in gcc.seen

\* the threads that have passed the guard of Start and not yet spawned
Spawning == {t \in DOMAIN lifecycle.calls : lifecycle.calls[t] = "spawn"}

\* C27: Start is idempotent: however many times and from however many
\* threads Start is called, at most one host-event loop and one pod-event
\* loop are running or about to be spawned, and none after a Stop unless
\* the one Start that succeeded spawned it.
C27_AtMostOneLoopEach ==
  /\ lifecycle.hostLoops + Cardinality(Spawning) <= 1
  /\ lifecycle.podLoops + Cardinality(Spawning) <= 1
  /\ lifecycle.status = "Idle" =>
       lifecycle.hostLoops = 0 /\ lifecycle.podLoops = 0 /\ Spawning = {}

\* thread 1 has started the loops and the Start of thread 2 was refused
C27_Witness ==
  /\ DOMAIN lifecycle.calls = {1, 2}
  /\ lifecycle.calls[1] = "started"
  /\ lifecycle.calls[2] = "refused"
  /\ lifecycle.hostLoops = 1
  /\ lifecycle.podLoops = 1
  /\ DOMAIN hostIndex # {}

StopWaiting ==
  \E t \in DOMAIN lifecycle.calls : lifecycle.calls[t] = "wait"

\* C28 (as claimed): when Stop is called on a running cache, both loops exit
\* and acknowledge, and Stop returns with the lifecycle Stopped: a Stop that
\* waits is eventually past its wait.
C28_StopReturns == StopWaiting ~> lifecycleWaitOver(lifecycle)

HoldsCacheLock(t) ==
  \/ t \in mu.readers
  \/ mu.writer = t /\ InOp(t) /\ mu.ops[t].st \in {"in", "held"}

\* a summary's lock is held only by a thread that holds the lock of the cache
LockOrder ==
  \A h \in Hosts : mu.summary[h] # "none" => HoldsCacheLock(mu.summary[h])

\* while an operation is in flight some thread inside an operation can step
NoStuck == (DOMAIN mu.ops # {}) => \E t \in LockThreads : ENABLED LockStep(t)

\* C29: no interleaving of the public operations with the two event loops
\* deadlocks: a summary's lock is only ever taken and held under the lock of
\* the cache, some thread inside an operation can always take a step, and
\* every operation that is started returns (no thread stays inside an
\* operation for ever).
C29_NoDeadlock ==
  /\ [](LockOrder /\ NoStuck)
  /\ \A t \in LockThreads : []<>(~InOp(t))

\* every thread is inside an operation and contends: the host loop has
\* announced its Lock and waits for caller1, which is in as a reader and
\* holds the lock of a summary; caller2 called RLock after the announcement
\* and is blocked; the pod loop is at its Lock
C29_Witness ==
  /\ mu.writer = "hostLoop"
  /\ mu.ops["hostLoop"].st = "drain"
  /\ mu.readers = {"caller1"}
  /\ mu.summary["h1"] = "caller1"
  /\ mu.rq = {"caller2"}
  /\ InOp("podLoop")
  /\ mu.ops["podLoop"].st = "call"


\* the hosts that are Placing under a lease whose expiry has passed
ExpiredLeaseHosts ==
  {h \in DOMAIN hostIndex :
     hostIndex[h].status = "Placing" /\ now > hostIndex[h].leaseExpiry}

\* TerminateLease and CompleteLease with the id of a lease past its expiry
\* fail and leave the host out of Placing
C30_ExpiredRefused ==
  \A h \in ExpiredLeaseHosts :
    LET s == hostIndex[h]
        id == s.leaseID
        tl == TerminateLease(hostIndex, h, id, now)
    IN /\ tl.err = "InvalidLease"
       /\ tl.idx[h].status = StatusForHolds(s.holds)
       /\ tl.idx[h].leaseID = NoLease
       /\ \A podToResMap \in PodToResMaps :
            LET cl == CompleteLease(hostIndex, h, id, podToResMap, now) IN
            /\ cl.err = "InvalidLease"
            /\ cl.idx[h].status = StatusForHolds(s.holds)
            /\ cl.idx[h].leaseID = NoLease
            /\ cl.idx[h].pods = s.pods

\* a call that tries, below its cap, a host whose lease is past its expiry
\* leases the host under a new id when the filter fits it, and leaves it out
\* of Placing otherwise
C30_ExpiredTried ==
  \A c \in Callers :
    (Tried(c) /\ ~hostLimitReached(acq[c].m, acq[c].filter)
       /\ TriedHost(c) \in ExpiredLeaseHosts) =>
      LET h == TriedHost(c)
          s == hostIndex[h]
      IN IF Contains(s.available, acq[c].filter.res)
         THEN /\ Leased(c)
              /\ hostIndex'[h].status = "Placing"
              /\ hostIndex'[h].leaseID # s.leaseID
              /\ hostIndex'[h].leaseExpiry = now + LeaseTTL
         ELSE /\ hostIndex'[h].status = StatusForHolds(s.holds)
              /\ hostIndex'[h].leaseID = NoLease

\* C30: a lease does not pin a host for ever.  Once lease_expiry has passed,
\* the next operation that observes the host treats the lease as ended:
\* TerminateLease and CompleteLease with the expired lease id fail with
\* InvalidLease and leave the host out of Placing, without a lease id and
\* with its pods as they were, and an AcquireLeases call that reaches the
\* host with a filter it fits leases it again under a new lease id.
C30_ExpiredLeaseEnds == [](C30_ExpiredRefused) /\ [][C30_ExpiredTried]_vars

\* h1 was leased under lease 1 by the hint pass of a call, the clock has
\* passed the expiry of the lease while the call was in flight, and the pass
\* over the index is about to try h1: the old id is refused and the call
\* leases the host anew
C30_Witness ==
  /\ "h1" \in ExpiredLeaseHosts
  /\ hostIndex["h1"].leaseID = 1
  /\ TerminateLease(hostIndex, "h1", 1, now).err = "InvalidLease"
  /\ \E c \in DOMAIN acq :
       /\ acq[c].pc = "index"
       /\ acq[c].m.hostNames = <<"h1">>
       /\ Head(acq[c].order) = "h1"
       /\ tryMatch(MatcherState(c), "h1", acq[c].filter, now).idx["h1"].leaseID = 2

\* the hosts that are Placing under a lease that has not expired
LeasedHosts == {h \in DOMAIN hostIndex : ActiveLease(hostIndex[h], now)}

\* C31 (as claimed): HoldForPods on a host that is Placing fails with the
\* ConflictingStatus error kind, adds no entry to the holds of the host or to
\* podHeldIndex, and leaves the host Placing under the same lease.
C31_HoldOnPlacingConflicts ==
  \A h \in LeasedHosts, podIDs \in PodLists :
    LET r == HoldForPods(hostIndex, podHeldIndex, h, podIDs, now) IN
    /\ r.err = "ConflictingStatus"
    /\ r.idx = hostIndex
    /\ r.held = podHeldIndex

MaintSteps ==
  <<"GetMaintenanceSchedule", "UpdateMaintenanceSchedule", "AddHostInfo", "Enqueue">>

IsPrefix(p, q) == Len(p) <= Len(q) /\ \A i \in 1..Len(p) : p[i] = q[i]

\* C32: StartMaintenance for a registered host reads the schedule, posts the
\* updated schedule, records the host as DRAINING and enqueues the hostname,
\* in this order; when a step fails no later step is performed and the call
\* returns an error and a nil response; for a hostname that is not a
\* registered agent it returns an error and performs no step.
C32_StartMaintenanceOrder ==
  \A agents \in AgentMaps, hostname \in MaintHosts, fail \in MaintFailures :
    LET r == StartMaintenance(maint, agents, hostname, fail)
        calls == r.last.calls
        registered == hostname \in DOMAIN agents
    IN /\ IsPrefix(calls, MaintSteps)
       /\ ~registered =>
            /\ calls = <<>> /\ r.last.err # "nil" /\ r.last.resp = "nil"
            /\ r.schedule = maint.schedule /\ r.hostMap = maint.hostMap
            /\ r.queue = maint.queue
       /\ (r.last.err = "nil") <=> (r.last.resp # "nil")
       /\ r.last.err = "nil" =>
            /\ calls = MaintSteps
            /\ r.last.resp = hostname
            /\ r.hostMap[hostname] = "DRAINING"
            /\ r.queue = Append(maint.queue, hostname)
       /\ (calls # <<>> /\ fail # "none") =>
            /\ calls[Len(calls)] = fail
            /\ r.last.err # "nil"
            /\ r.queue = maint.queue
       /\ (calls # <<>> /\ fail \in {"GetMaintenanceSchedule", "UpdateMaintenanceSchedule"}) =>
            r.schedule = maint.schedule /\ r.hostMap = maint.hostMap

\* host1 was put into maintenance, then a StartMaintenance of host3 failed
\* at the posting of the schedule: host3 is neither recorded nor enqueued
C32_Witness ==
  /\ maint.queue = <<"host1">>
  /\ maint.hostMap = MapPut(EmptyMap, "host1", "DRAINING")
  /\ maint.last.calls = <<"GetMaintenanceSchedule", "UpdateMaintenanceSchedule">>
  /\ maint.last.err # "nil"
  /\ maint.last.resp = "nil"

\* C33 (as claimed): within one AcquireLeases call every host of the index
\* is evaluated at most once, a host of the hint pass not being evaluated
\* again in the pass over the index: at the return of the call no hostname
\* is twice among the matched hosts, and the matched hosts and the tallies
\* of filter_counts together are no more than the hosts of the index.
C33_EachHostEvaluatedOnce ==
  \A c \in DOMAIN acq :
    LET a == acq[c] IN
    a.pc = "return" =>
      /\ \A i \in 1..Len(a.m.hostNames), j \in 1..Len(a.m.hostNames) :
           i # j => a.m.hostNames[i] # a.m.hostNames[j]
      /\ SumCounts(a.m.filterCounts) + Len(a.m.hostNames)
           <= Cardinality(DOMAIN hostIndex)

\* the host is in the index and the filter matches it at time t
Matches(h, filter, t) ==
  /\ h \in DOMAIN hostIndex
  /\ hsTryMatch(ExpireLease(hostIndex[h], t), filter) = "MATCH"

\* the positions of the hints whose host matches the filter
MatchingHints(filter) ==
  {i \in 1..Len(filter.hints) : Matches(filter.hints[i], filter, now)}

\* the hints of the call of c that name a host of the index
HintsInIndex(c) ==
  {i \in 1..Len(acq[c].filter.hints) : acq[c].filter.hints[i] \in DOMAIN hostIndex}

\* the pass over the index does not begin before the pass over the hints is
\* over; the hints are taken in their order; the pass over the hints ends
\* with the cap reached or with every hinted host of the index tried
C34_HintPassFirst ==
  \A c \in DOMAIN acq :
    LET a == acq[c] IN
    /\ a.pc = "hints" =>
         /\ Len(a.order) = Cardinality(DOMAIN hostIndex)
         /\ \E k \in 1..Len(a.filter.hints) :
              a.hints = SubSeq(a.filter.hints, k, Len(a.filter.hints))
    /\ a.pc # "hints" =>
         \/ hostLimitReached(a.m, a.filter)
         \/ Len(a.m.hostNames) + SumCounts(a.m.filterCounts)
              >= Cardinality(HintsInIndex(c))
    /\ (a.pc = "return" /\ a.filter.maxHosts = 1 /\ a.m.hostNames # <<>>) =>
         /\ Len(a.leases) = 1
         /\ a.leases[1].hostname = a.m.hostNames[1]

\* with max-hosts 1, the first hinted host that matches when it is tried is
\* the host leased, the pass over the hints ends there, and a call whose cap
\* is reached puts no host into Placing
C34_HintStep ==
  \A c \in Callers :
    /\ (Tried(c) /\ acq[c].pc = "hints" /\ acq[c].filter.maxHosts = 1
          /\ Matches(Head(acq[c].hints), acq[c].filter, now)) =>
         LET h == Head(acq[c].hints) IN
         /\ acq[c].m.hostNames = <<>>
         /\ acq'[c].m.hostNames = <<h>>
         /\ acq'[c].pc # "hints"
         /\ hostIndex'[h].status = "Placing"
         /\ \A g \in (DOMAIN hostIndex) \ {h} : hostIndex'[g] = hostIndex[g]
    /\ (Tried(c) /\ hostLimitReached(acq[c].m, acq[c].filter)) =>
         /\ hostIndex' = hostIndex
         /\ acq'[c].m.hostNames = acq[c].m.hostNames

\* C34: the hosts of the filter's host hints are tried before any other
\* host, in hint order: with max-hosts 1 and a hinted host that is in the
\* index and matches, the single lease returned is on the first matching
\* hinted host and no other host is put into Placing.
C34_HintsFirst == [](C34_HintPassFirst) /\ [][C34_HintStep]_vars

\* h1 and h2 both matched; the hints name h2 then h1: the call is at its
\* return with the lease on h2, and h1 is Ready
C34_Witness ==
  \E c \in DOMAIN acq :
    /\ acq[c].pc = "return"
    /\ DOMAIN hostIndex = {"h1", "h2"}
    /\ acq[c].filter.maxHosts = 1
    /\ acq[c].filter.hints = <<"h2", "h1">>
    /\ Matches("h1", acq[c].filter, now)
    /\ Len(acq[c].leases) = 1
    /\ acq[c].leases[1].hostname = "h2"
    /\ hostIndex["h2"].status = "Placing"
    /\ hostIndex["h1"].status = "Ready"

LeasedBy(r) == {r.leases[i].hostname : i \in 1..Len(r.leases)}

\* C35 (as claimed): AcquireLeases is deterministic for a given snapshot: two
\* runs from the same index state with the same filter lease the same set of
\* hosts and return the same filter_counts.
C35_Deterministic ==
  \A filter \in Filters :
    \A order1 \in Orders(DOMAIN hostIndex), order2 \in Orders(DOMAIN hostIndex) :
      LET r1 == AcquireLeases(hostIndex, leaseSeq, filter, order1, now)
          r2 == AcquireLeases(hostIndex, leaseSeq, filter, order2, now)
      IN /\ LeasedBy(r1) = LeasedBy(r2)
         /\ r1.counts = r2.counts

\* C36: an UpdateHostSpec event or a pod event that names a hostname absent
\* from the host index is dropped: no summary is created and the host index
\* is as it was (podHeldIndex is no part of what the two handlers touch).
C36_UnknownHostDropped ==
  /\ \A ev \in HostEvents :
       (ev.type = "UpdateHostSpec" /\ ev.hostname \notin DOMAIN hostIndex) =>
         /\ updateHostSpec(hostIndex, ev) = hostIndex
         /\ ApplyHostEvent(hostIndex, ev) = hostIndex
  /\ \A ev \in PodEvents :
       ev.hostname \notin DOMAIN hostIndex => handlePodEvent(hostIndex, ev) = hostIndex

\* h1 is in the index and h2 is not: an UpdateHostSpec and a pod launch
\* change h1, and the same events naming h2 change nothing
C36_Witness ==
  /\ DOMAIN hostIndex = {"h1"}
  /\ \E ev \in HostEvents :
       /\ ev.type = "UpdateHostSpec" /\ ev.hostname = "h1"
       /\ ApplyHostEvent(hostIndex, ev) # hostIndex
       /\ ApplyHostEvent(hostIndex, [ev EXCEPT !.hostname = "h2"]) = hostIndex
  /\ \E ev \in PodEvents :
       /\ ev.kind = "Launch" /\ ev.hostname = "h1"
       /\ handlePodEvent(hostIndex, ev) # hostIndex
       /\ handlePodEvent(hostIndex, [ev EXCEPT !.hostname = "h2"]) = hostIndex

\* C37 (as claimed): UpdateHostAvailableRes is applied only to Mesos-kind
\* hosts: for an absent hostname it creates a Mesos-kind summary with the
\* available resources and the version of the event, for a Mesos-kind
\* summary it updates available and version, and for a Kubelet-kind summary
\* it is not accepted and changes nothing.
C37_AvailableOnlyForMesos ==
  \A ev \in AvailableEvents :
    LET idx == ApplyHostEvent(hostIndex, ev)
        h == ev.hostname
    IN /\ h \in DOMAIN idx
       /\ \A g \in (DOMAIN hostIndex) \ {h} : idx[g] = hostIndex[g]
       /\ h \notin DOMAIN hostIndex =>
            /\ idx[h].kind = "Mesos"
            /\ idx[h].available = ev.available
            /\ idx[h].version = ev.version
       /\ (h \in DOMAIN hostIndex /\ hostIndex[h].kind = "Mesos") =>
            /\ idx[h].available = ev.available
            /\ idx[h].version = ev.version
       /\ (h \in DOMAIN hostIndex /\ hostIndex[h].kind = "Kubelet") =>
            idx[h] = hostIndex[h]

\* the lease ids held by the summaries of an index
HeldIDs(idx) == {idx[h].leaseID : h \in DOMAIN idx} \ {NoLease}

\* TerminateLease or CompleteLease accepts the id on the host
Accepted(h, id) ==
  \/ TerminateLease(hostIndex, h, id, now).err = "nil"
  \/ \E podToResMap \in PodToResMaps :
       CompleteLease(hostIndex, h, id, podToResMap, now).err = "nil"

\* every id held was minted, no two hosts hold the same id, and an id is
\* accepted only on the host that holds it under a lease that has not expired
LeaseIDsValidOnce ==
  /\ HeldIDs(hostIndex) \subseteq 1..leaseSeq
  /\ \A h \in DOMAIN hostIndex, g \in DOMAIN hostIndex :
       (h # g /\ hostIndex[h].leaseID # NoLease) =>
         hostIndex[h].leaseID # hostIndex[g].leaseID
  /\ \A h \in Hosts, id \in 1..MaxLeases :
       Accepted(h, id) =>
         /\ h \in DOMAIN hostIndex
         /\ hostIndex[h].leaseID = id
         /\ ActiveLease(hostIndex[h], now)

\* an id that a summary did not hold before the step and holds after it was
\* minted by the step: it is larger than every id issued before
LeaseIDsFresh ==
  \A h \in DOMAIN hostIndex' :
    LET id == hostIndex'[h].leaseID IN
    (id # NoLease /\ ~(h \in DOMAIN hostIndex /\ hostIndex[h].leaseID = id)) =>
      (id > leaseSeq /\ id <= leaseSeq')

\* C38: a lease id is never valid twice: every acquisition mints an id
\* different from all ids issued before, and an id whose lease has ended
\* (terminated, completed, expired, or dropped with the summary when its host
\* was deleted or added again) is accepted by CompleteLease and
\* TerminateLease on no host.
C38_LeaseIdNeverReused == [](LeaseIDsValidOnce) /\ [][LeaseIDsFresh]_vars

\* lease 1 was issued and ended, and no summary holds it any more: it is
\* refused on every host, and the next acquisition has minted lease 2
C38_Witness ==
  /\ leaseSeq = 2
  /\ DOMAIN hostIndex = {"h1"}
  /\ hostIndex["h1"].leaseID = 2
  /\ ActiveLease(hostIndex["h1"], now)
  /\ \A h \in Hosts : ~Accepted(h, 1)
  /\ Accepted("h1", 2)

\* the pods of the list whose hold fails: all of them when the host is
\* Placing under a lease that has not expired, none otherwise
FailedHolds(h, podIDs) ==
  IF ActiveLease(hostIndex[h], now) THEN Range(podIDs) ELSE {}

\* the outcome of HoldForPods(h, podIDs) claimed for a call in which the
\* holds of the pods in failed fail
PartialHold(r, h, podIDs, failed) ==
  /\ r.err = "Internal"
  /\ \A p \in Range(podIDs) \ failed :
       /\ p \in DOMAIN r.idx[h].holds
       /\ ~r.held.nil
       /\ p \in DOMAIN r.held.m
       /\ r.held.m[p] = h
  /\ \A p \in failed :
       /\ (p \in DOMAIN r.held.m) = (p \in DOMAIN podHeldIndex.m)
       /\ p \in DOMAIN r.held.m => r.held.m[p] = podHeldIndex.m[p]
       /\ (p \in DOMAIN r.idx[h].holds) = (p \in DOMAIN hostIndex[h].holds)

Earlier ==
  IF GetCreatedTimestampMs(join.d1) < GetCreatedTimestampMs(join.d2)
  THEN join.d1 ELSE join.d2
Later ==
  IF GetCreatedTimestampMs(join.d1) < GetCreatedTimestampMs(join.d2)
  THEN join.d2 ELSE join.d1

\* the events of q that have no rollback or terminal status, in their order
KeptEvents(q) ==
  SelectSeq(q, LAMBDA e : e.status \notin
    {"RollingBack", "RollBackPaused", "RollBackAwaitingPulse", "RolledBack",
     "Aborted", "Error", "Failed"})

\* C40: when the created timestamps of the two updates differ, the result of
\* JoinRollbackJobUpdateDetails is the same for both orders of the arguments:
\* its events are the events of the later update in their order followed by
\* the earlier update's events in their order without those of a rollback or
\* terminal status; status and last-modified time are those of the later
\* update; key, user, metadata, created time and instructions those of the
\* earlier one (optional fields compared through their getters).
C40_JoinOrderIndependent ==
  (join.pc = "done" /\
   GetCreatedTimestampMs(join.d1) # GetCreatedTimestampMs(join.d2)) =>
    /\ join.out = JoinRollbackJobUpdateDetails(join.d2, join.d1)
    /\ join.out.events = Later.events \o KeptEvents(Earlier.events)
    /\ join.out.status = Later.status
    /\ GetLastModifiedTimestampMs(join.out) = GetLastModifiedTimestampMs(Later)
    /\ join.out.key = Earlier.key
    /\ GetUser(join.out) = GetUser(Earlier)
    /\ join.out.metadata = Earlier.metadata
    /\ GetCreatedTimestampMs(join.out) = GetCreatedTimestampMs(Earlier)
    /\ join.out.instructions = Earlier.instructions

\* a finished call whose first argument was created later: both updates have
\* two events, the earlier one has one event of a rollback status, and the
\* result has three events
C40_Witness ==
  /\ join.pc = "done"
  /\ GetCreatedTimestampMs(join.d1) > GetCreatedTimestampMs(join.d2)
  /\ Len(join.d1.events) = 2
  /\ Len(join.d2.events) = 2
  /\ join.d2.events[1].status = "RolledBack"
  /\ join.d2.events[2].status = "RollingForward"
  /\ Len(join.out.events) = 3
  /\ join.out.key = <<"key", 2>>
=============================================================================
